---- MODULE Spec2Model ----
(***************************************************************************)
(* jamkv: a key-value store layered on one SQL table (kv_store).           *)
(* The model follows src/src/core/index.ts: CoreKV (get, getMany, set,     *)
(* del, cleanupExpired, list), KVTransaction (its overrides of get and     *)
(* getMany, commit, rollback, close) and LibSQLKV (the root session).      *)
(* The SQL engine is the external collaborator: a table of rows with a     *)
(* primary key, autocommit statements on the root connection and one       *)
(* interactive transaction handle.                                         *)
(***************************************************************************)
EXTENDS Integers, Sequences, FiniteSets, TLC

VARIABLES
  table,        \* the rows of kv_store as the root connection sees them
  txTable,      \* the rows as the transaction sees them (its own writes included)
  tx,           \* the transaction handle of the KVTransaction: state, mode and
                \* the kinds of writing statement it has run
  now,          \* Date.now()
  nextVersion,  \* the next identifier generateVersion hands out
  pending,      \* keys whose delete a root read has issued and not awaited
  lastOp,       \* the last operation a caller invoked and what it got back
  discarded,    \* a failure of a not-awaited delete was caught and dropped
  txWritten,    \* what the open transaction has set and not deleted since
  txGone,       \* keys the open transaction has deleted and not set since
  shadow,       \* the rows the root would hold had the transaction not been opened
  overwritten   \* the version of the row the last set replaced, if it replaced one

vars == <<table, txTable, tx, now, nextVersion, pending, lastOp, discarded,
          txWritten, txGone, shadow, overwritten>>

(***************************************************************************)
(* Bounds of the model                                                     *)
(***************************************************************************)
\* wall clock runs from 1 to MaxTime (Date.now() is positive)
MaxTime == 3
\* number of versions generateVersion may hand out in one behaviour
MaxVersion == 2

Keys == {"a", "b"}

\* expireIn arguments of set: not provided ({}), or a number of milliseconds
ExpireIns == {{}, {1}}
\* the same with the number 0 among them
ExpireInsWithZero == {{}, {0}, {1}}

Sessions == {"root", "tx"}

(***************************************************************************)
(* Nullable columns and optional arguments are sets of at most one element *)
(***************************************************************************)
NULL == {}
Some(x) == {x}
The(c) == CHOOSE x \in c : TRUE

(***************************************************************************)
(* Value codec                                                             *)
(***************************************************************************)
\* JSON values: the literal null, objects and arrays; o holds the members
\* of an object that are integers, nested (when there is one) the members
\* that are objects of integer members, items the elements of an array
JsonNull == [t |-> "null", o |-> <<>>]
JsonObj(o) == [t |-> "obj", o |-> o]
JsonArr(items) == [t |-> "arr", o |-> <<>>, items |-> items]

\* KVValue: a kind tag (what instanceof / typeof see) and the payload
StrV(s) == [kind |-> "string", v |-> s]
NumV(n) == [kind |-> "number", v |-> n]
BoolV(b) == [kind |-> "boolean", v |-> b]
JsonV(j) == [kind |-> "json", v |-> j]
BinV(bytes) == [kind |-> "binary", v |-> bytes]

\* the numbers that are no integers: -0 (zero with the sign bit set) and NaN
NegZero == [kind |-> "number", v |-> 0, sign |-> "-"]
NaN == [kind |-> "number", v |-> 0, nan |-> TRUE]

\* the values the operations of Spec write
Values == {StrV("1"), NumV(1)}

Digit(d) == CASE d = 0 -> "0" [] d = 1 -> "1" [] d = 2 -> "2" [] d = 3 -> "3"
              [] d = 4 -> "4" [] d = 5 -> "5" [] d = 6 -> "6" [] d = 7 -> "7"
              [] d = 8 -> "8" [] d = 9 -> "9"

RECURSIVE NatToString(_)
NatToString(n) == IF n < 10 THEN Digit(n)
                  ELSE NatToString(n \div 10) \o Digit(n % 10)

\* String(value) of an integer number
NumberToString(n) == IF n < 0 THEN "-" \o NatToString(0 - n) ELSE NatToString(n)

\* String(value) of a number: -0 is written "0", NaN "NaN"
String(value) ==
  IF "nan" \in DOMAIN value THEN "NaN"
  ELSE IF "sign" \in DOMAIN value THEN "0"
  ELSE NumberToString(value.v)

\* String(value) of a boolean
BooleanToString(b) == IF b THEN "true" ELSE "false"

FieldNames == {"a", "b"}

RECURSIVE JoinFields(_, _)
JoinFields(o, fs) ==
  IF fs = {} THEN ""
  ELSE LET f == CHOOSE x \in fs : \A y \in fs : (x = "a" \/ y # "a")
           rest == fs \ {f}
       IN "\"" \o f \o "\":" \o NumberToString(o[f])
          \o (IF rest = {} THEN "" ELSE ",") \o JoinFields(o, rest)

\* the members of a document that are objects
nestedOf(j) == IF "nested" \in DOMAIN j THEN j.nested ELSE <<>>

RECURSIVE JoinNested(_, _)
JoinNested(nested, fs) ==
  IF fs = {} THEN ""
  ELSE LET f == CHOOSE x \in fs : TRUE
           rest == fs \ {f}
       IN "\"" \o f \o "\":{" \o JoinFields(nested[f], DOMAIN nested[f]) \o "}"
          \o (IF rest = {} THEN "" ELSE ",") \o JoinNested(nested, rest)

RECURSIVE JoinItems(_)
JoinItems(items) ==
  IF items = <<>> THEN ""
  ELSE NumberToString(Head(items))
         \o (IF Tail(items) = <<>> THEN "" ELSE ",") \o JoinItems(Tail(items))

\* JSON.stringify(value)
JSONStringify(j) ==
  IF j.t = "null" THEN "null"
  ELSE IF j.t = "arr" THEN "[" \o JoinItems(j.items) \o "]"
  ELSE "{" \o JoinFields(j.o, DOMAIN j.o)
           \o (IF DOMAIN j.o # {} /\ DOMAIN nestedOf(j) # {} THEN "," ELSE "")
           \o JoinNested(nestedOf(j), DOMAIN nestedOf(j)) \o "}"

\* the documents {"a":{"b":1}} and {"a.b":1}
NestedDoc == [t |-> "obj", o |-> <<>>, nested |-> [f \in {"a"} |-> [g \in {"b"} |-> 1]]]
DottedDoc == JsonObj([f \in {"a.b"} |-> 1])

\* the numbers and JSON documents that texts are parsed back into
NumberUniverse == -1 .. 12
JsonUniverse == {JsonNull, NestedDoc, DottedDoc} \cup
                {JsonObj(o) : o \in UNION {[fs -> 1 .. 2] : fs \in SUBSET FieldNames}} \cup
                {JsonArr(<<>>), JsonArr(<<1>>), JsonArr(<<1, 2>>)}

\* Number(text): the number a numeric literal denotes, NaN for any other text
Number(text) == IF \E n \in NumberUniverse : NumberToString(n) = text
                THEN NumV(CHOOSE n \in NumberUniverse : NumberToString(n) = text)
                ELSE NaN

\* JSON.parse(text), on the texts JSON.stringify produces
JSONParse(text) == CHOOSE j \in JsonUniverse : JSONStringify(j) = text

\* toArrayBuffer: the logical byte range of the array
toArrayBuffer(bytes) == bytes

encodeValue(value) ==
  IF value.kind = "binary"
    THEN [blob |-> Some(toArrayBuffer(value.v)), text |-> NULL, type |-> "binary"]
  ELSE IF value.kind = "string"
    THEN [blob |-> NULL, text |-> Some(value.v), type |-> "string"]
  ELSE IF value.kind = "number"
    THEN [blob |-> NULL, text |-> Some(String(value)), type |-> "number"]
  ELSE IF value.kind = "boolean"
    THEN [blob |-> NULL, text |-> Some(BooleanToString(value.v)), type |-> "boolean"]
  ELSE [blob |-> NULL, text |-> Some(JSONStringify(value.v)), type |-> "json"]

\* the last line returns row.value_text whatever the type tag is: the text,
\* or null when the column holds none
decodeValue(row) ==
  IF row.value_type = "binary" THEN BinV(The(row.value_blob))
  ELSE IF row.value_type = "number" THEN Number(The(row.value_text))
  ELSE IF row.value_type = "boolean" THEN BoolV(The(row.value_text) = "true")
  ELSE IF row.value_type = "json" THEN JsonV(JSONParse(The(row.value_text)))
  ELSE IF row.value_text = NULL THEN JsonV(JsonNull)
  ELSE StrV(The(row.value_text))

(***************************************************************************)
(* Rows, entries and statements                                            *)
(***************************************************************************)
\* the KVEntry a read builds from a row
Entry(row) == [key |-> row.key, value |-> decodeValue(row), version |-> row.version]

\* SELECT * FROM kv_store WHERE key IN (keys)
SelectKeys(rows, keys) == {r \in rows : r.key \in keys}

\* a delete that empties the table
DeleteEveryRow(rows, k) == {}

\* DELETE FROM kv_store WHERE key = k
DeleteKey(rows, k) == {r \in rows : r.key # k}

\* an upsert whose DO UPDATE leaves expires_at as it was
UpsertKeepsExpiry(rows, k, enc, version, expiresAt) ==
  IF \E r \in rows : r.key = k
    THEN {IF r.key = k
            THEN [r EXCEPT !.value_blob = enc.blob, !.value_text = enc.text,
                           !.value_type = enc.type, !.version = version]
            ELSE r : r \in rows}
    ELSE rows \cup {[key |-> k, value_blob |-> enc.blob, value_text |-> enc.text,
                     value_type |-> enc.type, version |-> version,
                     expires_at |-> expiresAt]}

\* an insert that replaces the rows of the table by the new row
UpsertReplacesTable(rows, k, enc, version, expiresAt) ==
  {[key |-> k, value_blob |-> enc.blob, value_text |-> enc.text,
    value_type |-> enc.type, version |-> version, expires_at |-> expiresAt]}

\* an upsert whose DO UPDATE leaves value_blob as it was
UpsertKeepsBlob(rows, k, enc, version, expiresAt) ==
  IF \E r \in rows : r.key = k
    THEN {IF r.key = k
            THEN [r EXCEPT !.value_text = enc.text, !.value_type = enc.type,
                           !.version = version, !.expires_at = expiresAt]
            ELSE r : r \in rows}
    ELSE rows \cup {[key |-> k, value_blob |-> enc.blob, value_text |-> enc.text,
                     value_type |-> enc.type, version |-> version,
                     expires_at |-> expiresAt]}

\* INSERT ... ON CONFLICT(key) DO UPDATE SET value_blob, value_text,
\* value_type, version, expires_at = excluded.*
Upsert(rows, k, enc, version, expiresAt) ==
  IF \E r \in rows : r.key = k
    THEN {IF r.key = k
            THEN [r EXCEPT !.value_blob = enc.blob, !.value_text = enc.text,
                           !.value_type = enc.type, !.version = version,
                           !.expires_at = expiresAt]
            ELSE r : r \in rows}
    ELSE rows \cup {[key |-> k, value_blob |-> enc.blob, value_text |-> enc.text,
                     value_type |-> enc.type, version |-> version,
                     expires_at |-> expiresAt]}

\* the lazy expiration check of get and getMany:
\* row.expires_at && row.expires_at < now
isExpired(row, t) ==
  row.expires_at # NULL /\ The(row.expires_at) # 0 /\ The(row.expires_at) < t

\* the filter of list: expires_at IS NULL OR expires_at > now
listLive(row, t) == row.expires_at = NULL \/ The(row.expires_at) > t

\* the filter of cleanupExpired: expires_at IS NOT NULL AND expires_at < now
cleanupMatches(row, t) == row.expires_at # NULL /\ The(row.expires_at) < t

\* options?.expireIn ? Date.now() + options.expireIn : null
expiresAtOf(expireIn, t) ==
  IF expireIn # NULL /\ The(expireIn) # 0 THEN Some(t + The(expireIn)) ELSE NULL

(***************************************************************************)
(* Sessions and the statement-execution capability                         *)
(***************************************************************************)
TxModes == {"write", "read"}
TxTerminal == {"committed", "rolledback", "closed"}

txOpen == tx.state = "open"

\* LibSQLKV.execute runs a statement on the client, KVTransaction.execute on
\* the transaction handle
boundTo(s) == s

\* every session reading through the client's connection
rowsOfClient(s) == table

\* the rows a statement of session s runs against
rowsOf(s) == IF boundTo(s) = "root" THEN table ELSE txTable

\* a session that exists: the root, or a transaction that was created
exists(s) == s = "root" \/ tx.state # "none"

\* a reading statement: the engine may fail any statement (fail); a finished
\* transaction handle fails every statement
readFails(s, fail) == fail \/ (boundTo(s) = "tx" /\ ~txOpen)

\* a session whose failed writing statements go unnoticed
writeFailsUnnoticed(s, fail) == FALSE

\* a writing statement: a read-mode transaction and a finished handle reject
\* it; the engine may fail it
writeFails(s, fail) == fail \/ (boundTo(s) = "tx" /\ ~(txOpen /\ tx.mode = "write"))

\* the engine has a single writer: a write on the root connection waits (or
\* fails, see fail) while a write transaction is open
writeBlocked(s) == boundTo(s) = "root" /\ txOpen /\ tx.mode = "write"

errOf(s) == IF boundTo(s) = "tx" /\ ~txOpen THEN "closed" ELSE "exec"

\* generateVersion: a fresh identifier on every call
generateVersion == nextVersion

(***************************************************************************)
(* What the caller of an operation observes                                *)
(***************************************************************************)
\* res is a sequence of slots; a slot is NULL (absent) or Some(entry);
\* again tells that the call repeats the successful call made just before it;
\* options are the ListOptions of a list
Op(op, s, keys, val, expireIn, res, err, stmts) ==
  [op |-> op, sess |-> s, keys |-> keys, val |-> val, expireIn |-> expireIn,
   res |-> res, err |-> err, stmts |-> stmts, again |-> FALSE, options |-> NULL]

\* the call (op, s, keys) repeats the last one, which succeeded
repeats(op, s, keys) ==
  lastOp.op = op /\ lastOp.sess = s /\ lastOp.keys = keys /\ lastOp.err = "none"

NoOp == Op("none", "root", <<>>, NULL, NULL, <<>>, "none", <<>>)

\* the writing statements of CoreKV, with their arguments
UpsertStmt(k, enc, version, expiresAt) ==
  [sql |-> "INSERT", key |-> k, enc |-> enc, version |-> version, expiresAt |-> expiresAt]
DeleteStmt(k) == [sql |-> "DELETE", key |-> k]
CleanupStmt(t) == [sql |-> "DELETE expired", at |-> t]

\* the rows after the engine has run a writing statement
run(rows, stmt) ==
  CASE stmt.sql = "INSERT" ->
         Upsert(rows, stmt.key, stmt.enc, stmt.version, stmt.expiresAt)
    [] stmt.sql = "DELETE" -> DeleteKey(rows, stmt.key)
    [] stmt.sql = "DELETE expired" -> {r \in rows : ~cleanupMatches(r, stmt.at)}

\* execute of a writing statement that succeeds: it changes the rows of the
\* connection the session is bound to
writeRows(s, stmt) ==
  IF boundTo(s) = "root"
    THEN table' = run(table, stmt) /\ shadow' = run(shadow, stmt) /\ UNCHANGED txTable
    ELSE txTable' = run(txTable, stmt) /\ UNCHANGED <<table, shadow>>

\* the transaction handle saw a statement of this kind succeed
txNote(s, kind) ==
  tx' = IF boundTo(s) = "tx" THEN [tx EXCEPT !.wrote = @ \cup {kind}] ELSE tx

\* the transaction deleted the rows of these keys
txForget(s, keys) ==
  /\ txWritten' = IF s = "tx" THEN {w \in txWritten : w.key \notin keys} ELSE txWritten
  /\ txGone' = IF s = "tx" THEN txGone \cup keys ELSE txGone

Init ==
  /\ table = {}
  /\ txTable = {}
  /\ tx = [state |-> "none", mode |-> "write", wrote |-> {}]
  /\ now = 1
  /\ nextVersion = 1
  /\ pending = {}
  /\ lastOp = NoOp
  /\ discarded = FALSE
  /\ txWritten = {}
  /\ txGone = {}
  /\ shadow = {}
  /\ overwritten = {}

(***************************************************************************)
(* CoreKV.set and CoreKV.del, on either session                            *)
(***************************************************************************)
set(s, k, value, expireIn, fail) ==
  /\ exists(s)
  /\ nextVersion <= MaxVersion
  /\ fail \/ ~writeBlocked(s)
  /\ LET enc == encodeValue(value)
         version == generateVersion
         expiresAt == expiresAtOf(expireIn, now)
     IN /\ nextVersion' = nextVersion + 1
        /\ IF writeFails(s, fail)
             THEN /\ lastOp' = Op("set", s, <<k>>, Some(value), expireIn, <<>>,
                                  errOf(s), <<"INSERT">>)
                  /\ UNCHANGED <<table, txTable, shadow, tx, txWritten, txGone, overwritten>>
             ELSE /\ writeRows(s, UpsertStmt(k, enc, version, expiresAt))
                  /\ lastOp' = Op("set", s, <<k>>, Some(value), expireIn, <<>>,
                                  "none", <<"INSERT">>)
                  /\ txNote(s, "INSERT")
                  /\ overwritten' = {r.version : r \in SelectKeys(rowsOf(s), {k})}
                  /\ txWritten' =
                       IF s = "tx"
                         THEN {w \in txWritten : w.key # k} \cup
                              {[key |-> k, value |-> value, version |-> version,
                                until |-> expiresAt]}
                         ELSE txWritten
                  /\ txGone' = IF s = "tx" THEN txGone \ {k} ELSE txGone
  /\ UNCHANGED <<now, pending, discarded>>

del(s, k, fail) ==
  /\ exists(s)
  /\ fail \/ ~writeBlocked(s)
  /\ IF writeFails(s, fail)
       THEN /\ lastOp' = Op("del", s, <<k>>, NULL, NULL, <<>>, errOf(s), <<"DELETE">>)
            /\ UNCHANGED <<table, txTable, shadow, tx, txWritten, txGone>>
       ELSE /\ writeRows(s, DeleteStmt(k))
            /\ lastOp' = [Op("del", s, <<k>>, NULL, NULL, <<>>, "none", <<"DELETE">>)
                             EXCEPT !.again = repeats("del", s, <<k>>)]
            /\ txNote(s, "DELETE")
            /\ txForget(s, {k})
  /\ UNCHANGED <<now, nextVersion, pending, discarded, overwritten>>

(***************************************************************************)
(* CoreKV.get on the root session: the delete of an expired row is issued  *)
(* and not awaited                                                         *)
(***************************************************************************)
\* the row get looks at: rs.rows[0]
firstRow(rs) == CHOOSE r \in rs : TRUE

\* an expiration check that takes every row it finds for expired
foundAny(rows, k, t) == SelectKeys(rows, {k}) # {}

\* get found a row and the row is expired
foundExpired(rows, k, t) ==
  SelectKeys(rows, {k}) # {} /\ isExpired(firstRow(SelectKeys(rows, {k})), t)

\* what get returns when its statement succeeds: null, or the entry of the row
getSlot(rows, k, t) ==
  IF SelectKeys(rows, {k}) = {} \/ foundExpired(rows, k, t)
    THEN NULL
    ELSE Some(Entry(firstRow(SelectKeys(rows, {k}))))

CoreKV_get(k, fail) ==
  /\ IF readFails("root", fail)
       THEN /\ lastOp' = Op("get", "root", <<k>>, NULL, NULL, <<>>, "exec", <<"SELECT">>)
            /\ UNCHANGED pending
     ELSE IF foundExpired(table, k, now)
       THEN /\ pending' = pending \cup {k}
            /\ lastOp' = Op("get", "root", <<k>>, NULL, NULL, <<NULL>>, "none",
                            <<"SELECT", "DELETE">>)
     ELSE /\ lastOp' = Op("get", "root", <<k>>, NULL, NULL, <<getSlot(table, k, now)>>,
                          "none", <<"SELECT">>)
          /\ UNCHANGED pending
  /\ UNCHANGED <<table, txTable, tx, now, nextVersion, discarded,
                 txWritten, txGone, shadow, overwritten>>

\* the not-awaited delete without its .catch: the failure reaches the caller
lazyDeleteUncaught(k, fail) ==
  /\ k \in pending
  /\ pending' = pending \ {k}
  /\ IF fail
       THEN /\ lastOp' = [lastOp EXCEPT !.err = "exec"]
            /\ UNCHANGED <<table, txTable, shadow>>
       ELSE /\ table' = run(table, DeleteStmt(k))
            /\ shadow' = run(shadow, DeleteStmt(k))
            /\ UNCHANGED <<txTable, lastOp>>
  /\ UNCHANGED <<tx, now, nextVersion, discarded, txWritten, txGone, overwritten>>

\* the engine runs a delete that a root read issued; the read's
\* .catch(() => {}) discards its failure
lazyDelete(k, fail) ==
  /\ k \in pending
  /\ fail \/ ~writeBlocked("root")
  /\ pending' = pending \ {k}
  /\ IF fail
       THEN discarded' = TRUE /\ UNCHANGED <<table, txTable, shadow>>
       ELSE writeRows("root", DeleteStmt(k)) /\ UNCHANGED discarded
  /\ UNCHANGED <<tx, now, nextVersion, lastOp, txWritten, txGone, overwritten>>

(***************************************************************************)
(* CoreKV.getMany on the root session                                      *)
(***************************************************************************)
MaxKeys == 2

RECURSIVE SeqsUpTo(_)
SeqsUpTo(n) == IF n = 0 THEN {<<>>}
               ELSE SeqsUpTo(n - 1) \cup [1 .. n -> Keys]

\* the keys arguments of getMany
KeySeqs == SeqsUpTo(MaxKeys)

Range(q) == {q[i] : i \in DOMAIN q}

\* one statement name per element of a set
Repeat(name, n) == [i \in 1 .. n |-> name]

\* a loop that finds no row expired
expiredOfNone(rows, keys, t) == {}

\* the rows of the result that the loop finds expired
expiredOf(rows, keys, t) == {r \in SelectKeys(rows, Range(keys)) : isExpired(r, t)}

\* a lookup that hands each row out once: a repeated key gets null
slotsOfOnce(keys, live) ==
  [i \in DOMAIN keys |->
     IF (\E r \in live : r.key = keys[i]) /\ ~(\E j \in 1 .. i - 1 : keys[j] = keys[i])
       THEN Some(Entry(CHOOSE r \in live : r.key = keys[i]))
       ELSE NULL]

\* keys.map(key => map.get(key) ? entry : null)
slotsOf(keys, live) ==
  [i \in DOMAIN keys |->
     IF \E r \in live : r.key = keys[i]
       THEN Some(Entry(CHOOSE r \in live : r.key = keys[i]))
       ELSE NULL]

\* what getMany returns when its statement succeeds
getManySlots(rows, keys, t) ==
  slotsOf(keys, SelectKeys(rows, Range(keys)) \ expiredOf(rows, keys, t))

CoreKV_getMany(keys, fail) ==
  /\ IF keys = <<>>
       THEN /\ lastOp' = Op("getMany", "root", keys, NULL, NULL, <<>>, "none", <<>>)
            /\ UNCHANGED pending
     ELSE IF readFails("root", fail)
       THEN /\ lastOp' = Op("getMany", "root", keys, NULL, NULL, <<>>, "exec", <<"SELECT">>)
            /\ UNCHANGED pending
     ELSE LET expired == expiredOf(table, keys, now)
          IN /\ pending' = pending \cup {r.key : r \in expired}
             /\ lastOp' = Op("getMany", "root", keys, NULL, NULL,
                             getManySlots(table, keys, now), "none",
                             <<"SELECT">> \o Repeat("DELETE", Cardinality(expired)))
  /\ UNCHANGED <<table, txTable, tx, now, nextVersion, discarded,
                 txWritten, txGone, shadow, overwritten>>

(***************************************************************************)
(* KVTransaction.get and KVTransaction.getMany: the delete of an expired   *)
(* row is awaited                                                          *)
(***************************************************************************)
\* KVTransaction without its override: CoreKV.get, which does not await the
\* delete of the expired row
KVTransaction_getInherited(k, fail, failDel) ==
  /\ exists("tx")
  /\ IF readFails("tx", fail)
       THEN lastOp' = Op("get", "tx", <<k>>, NULL, NULL, <<>>, errOf("tx"), <<"SELECT">>)
     ELSE IF foundExpired(txTable, k, now)
       THEN lastOp' = Op("get", "tx", <<k>>, NULL, NULL, <<NULL>>, "none",
                         <<"SELECT", "DELETE">>)
     ELSE lastOp' = Op("get", "tx", <<k>>, NULL, NULL, <<getSlot(txTable, k, now)>>,
                       "none", <<"SELECT">>)
  /\ UNCHANGED <<table, txTable, tx, txWritten, txGone, now, nextVersion, pending,
                 discarded, shadow, overwritten>>

KVTransaction_get(k, fail, failDel) ==
  /\ exists("tx")
  /\ IF readFails("tx", fail)
       THEN /\ lastOp' = Op("get", "tx", <<k>>, NULL, NULL, <<>>, errOf("tx"), <<"SELECT">>)
            /\ UNCHANGED <<txTable, tx, txWritten, txGone>>
     ELSE IF foundExpired(rowsOf("tx"), k, now)
       THEN IF writeFails("tx", failDel)
              THEN /\ lastOp' = Op("get", "tx", <<k>>, NULL, NULL, <<>>, "exec",
                                   <<"SELECT", "DELETE">>)
                   /\ UNCHANGED <<txTable, tx, txWritten, txGone>>
              ELSE /\ txTable' = run(txTable, DeleteStmt(k))
                   /\ txNote("tx", "DELETE")
                   /\ txForget("tx", {k})
                   /\ lastOp' = Op("get", "tx", <<k>>, NULL, NULL, <<NULL>>, "none",
                                   <<"SELECT", "DELETE">>)
     ELSE /\ lastOp' = Op("get", "tx", <<k>>, NULL, NULL, <<getSlot(rowsOf("tx"), k, now)>>,
                          "none", <<"SELECT">>)
          /\ UNCHANGED <<txTable, tx, txWritten, txGone>>
  /\ UNCHANGED <<table, now, nextVersion, pending, discarded, shadow, overwritten>>

\* the rows come back in an order the statement does not fix, and the engine
\* may fail any delete: either every expired row is deleted, or one delete
\* fails (failing) after any of the other expired rows were deleted (done)
KVTransaction_getMany(keys, fail) ==
  /\ exists("tx")
  /\ IF keys = <<>>
       THEN /\ lastOp' = Op("getMany", "tx", keys, NULL, NULL, <<>>, "none", <<>>)
            /\ UNCHANGED <<txTable, tx, txWritten, txGone>>
     ELSE IF readFails("tx", fail)
       THEN /\ lastOp' = Op("getMany", "tx", keys, NULL, NULL, <<>>, errOf("tx"), <<"SELECT">>)
            /\ UNCHANGED <<txTable, tx, txWritten, txGone>>
     ELSE LET expired == expiredOf(txTable, keys, now)
              expiredKeys == {r.key : r \in expired}
          IN \/ /\ ~writeFails("tx", FALSE) \/ expired = {}
                /\ txTable' = {r \in txTable : r.key \notin expiredKeys}
                /\ tx' = IF expired = {} THEN tx ELSE [tx EXCEPT !.wrote = @ \cup {"DELETE"}]
                /\ txForget("tx", expiredKeys)
                /\ lastOp' = Op("getMany", "tx", keys, NULL, NULL,
                                getManySlots(txTable, keys, now), "none",
                                <<"SELECT">> \o Repeat("DELETE", Cardinality(expired)))
             \/ \E failing \in expiredKeys : \E done \in SUBSET (expiredKeys \ {failing}) :
                  /\ writeFails("tx", FALSE) => done = {}
                  /\ txTable' = {r \in txTable : r.key \notin done}
                  /\ tx' = IF done = {} THEN tx ELSE [tx EXCEPT !.wrote = @ \cup {"DELETE"}]
                  /\ txForget("tx", done)
                  /\ lastOp' = Op("getMany", "tx", keys, NULL, NULL, <<>>, "exec",
                                  <<"SELECT">> \o Repeat("DELETE", Cardinality(done) + 1))
  /\ UNCHANGED <<table, now, nextVersion, pending, discarded, shadow, overwritten>>

(***************************************************************************)
(* CoreKV.cleanupExpired and CoreKV.list, on either session                *)
(***************************************************************************)
cleanupExpired(s, fail) ==
  /\ exists(s)
  /\ fail \/ ~writeBlocked(s)
  /\ IF writeFails(s, fail)
       THEN /\ lastOp' = Op("cleanupExpired", s, <<>>, NULL, NULL, <<>>, errOf(s), <<"DELETE">>)
            /\ UNCHANGED <<table, txTable, shadow, tx, txWritten>>
       ELSE /\ writeRows(s, CleanupStmt(now))
            /\ lastOp' = Op("cleanupExpired", s, <<>>, NULL, NULL, <<>>, "none", <<"DELETE">>)
            /\ txNote(s, "DELETE")
            /\ txWritten' = IF s = "tx" THEN {} ELSE txWritten
  /\ UNCHANGED <<now, nextVersion, pending, discarded, txGone, overwritten>>

\* the keys of the stores that list is run on, with its options
ListKeys == {"a_", "ab", "b"}

\* the characters of the strings of the model, in order
Spelling(str) ==
  CASE str = "" -> <<>>
    [] str = "%" -> <<"%">>
    [] str = "_" -> <<"_">>
    [] str = "A" -> <<"A">>
    [] str = "a" -> <<"a">>
    [] str = "b" -> <<"b">>
    [] str = "1" -> <<"1">>
    [] str = "2" -> <<"2">>
    [] str = "3" -> <<"3">>
    [] str = "Ab" -> <<"A", "b">>
    [] str = "a%" -> <<"a", "%">>
    [] str = "a_" -> <<"a", "_">>
    [] str = "ab" -> <<"a", "b">>

\* LIKE compares ASCII letters without regard to case
foldCase(c) == CASE c = "a" -> "A" [] c = "b" -> "B" [] OTHER -> c

\* text LIKE pattern, on the characters of both: % matches any run of
\* characters, _ any one character, no ESCAPE character is declared
RECURSIVE like(_, _)
like(pattern, text) ==
  IF pattern = <<>> THEN text = <<>>
  ELSE IF Head(pattern) = "%"
    THEN \E i \in 0 .. Len(text) : like(Tail(pattern), SubSeq(text, i + 1, Len(text)))
  ELSE /\ text # <<>>
       /\ (Head(pattern) = "_" \/ foldCase(Head(pattern)) = foldCase(Head(text)))
       /\ like(Tail(pattern), Tail(text))

\* if (options.prefix) ... AND key LIKE `${options.prefix}%`
prefixMatches(row, prefix) ==
  (prefix # NULL /\ The(prefix) # "")
    => like(Spelling(The(prefix)) \o <<"%">>, Spelling(row.key))

\* ORDER BY key: the binary collation on the keys of the model
KeyOrder == <<"Ab", "a", "a%", "a_", "ab", "b">>
keyRank(k) == CHOOSE i \in DOMAIN KeyOrder : KeyOrder[i] = k
keyBefore(k1, k2, reverse) ==
  IF reverse THEN keyRank(k1) > keyRank(k2) ELSE keyRank(k1) < keyRank(k2)

\* an ordering that is ascending whatever reverse says
orderByAscending(rows, reverse) ==
  LET RECURSIVE asc(_)
      asc(rs) == IF rs = {} THEN <<>>
                 ELSE LET first == CHOOSE r \in rs :
                                     \A q \in rs : q = r \/ keyRank(r.key) < keyRank(q.key)
                      IN <<first>> \o asc(rs \ {first})
  IN asc(rows)

RECURSIVE orderBy(_, _)
orderBy(rows, reverse) ==
  IF rows = {} THEN <<>>
  ELSE LET first == CHOOSE r \in rows :
                      \A q \in rows : q = r \/ ~keyBefore(q.key, r.key, reverse)
       IN <<first>> \o orderBy(rows \ {first}, reverse)

\* if (options.limit) ... LIMIT ?
limitTo(q, limit) ==
  IF limit # NULL /\ The(limit) # 0 /\ The(limit) < Len(q)
    THEN SubSeq(q, 1, The(limit))
    ELSE q

(***************************************************************************)
(* The where option of list: the filter, its compilation by list and       *)
(* buildWhereSql, and the engine's evaluation of the compiled fragment     *)
(***************************************************************************)
\* a WhereCondition, and the LogicResults the and, or and not of list build
Cond(field, operator, value) == [field |-> field, operator |-> operator, value |-> value]
And(conditions) == [op |-> "AND", conditions |-> conditions]
Or(conditions) == [op |-> "OR", conditions |-> conditions]
Not(conditions) == [op |-> "NOT", conditions |-> conditions]

\* options.where: a WhereCondition, or a callback that returns a logic tree
WhereObject(condition) == [fn |-> FALSE, condition |-> condition]
WhereCallback(tree) == [fn |-> TRUE, tree |-> tree]

\* an operator handed on as it came
anyOp(operator) == operator

\* safeOps.includes(operator) ? operator : "="
safeOps == {"=", ">", "<", "LIKE", "!="}
safeOp(operator) == IF operator \in safeOps THEN operator ELSE "="

\* the fragments of SQL text: json_extract(value_text, ?) op ?, NOT (inner)
\* and (part op part ...); the ? take the arguments in their order
Comparison(op) == [frag |-> "cmp", op |-> op]
Negation(inner) == [frag |-> "not", inner |-> inner]
\* a loop over the conditions that skips the first one
JoinedSkipsFirst(op, parts) == [frag |-> "join", op |-> op, parts |-> Tail(parts)]
\* parts joined with AND whatever the node says
JoinedWithAnd(op, parts) == [frag |-> "join", op |-> "AND", parts |-> parts]
Joined(op, parts) == [frag |-> "join", op |-> op, parts |-> parts]

\* `$.${condition.field}`
pathOf(field) == "$." \o field

RECURSIVE Flatten(_)
Flatten(seqs) == IF seqs = <<>> THEN <<>> ELSE Head(seqs) \o Flatten(Tail(seqs))

\* "op" in condition
isLogic(condition) == "op" \in DOMAIN condition

\* throw new Error("NOT operator requires a condition"): nothing is compiled
thrown == [ok |-> FALSE, sql |-> Joined("AND", <<>>), args |-> <<>>]

RECURSIVE buildWhereSql(_)
buildWhereSql(condition) ==
  IF isLogic(condition)
    THEN IF condition.op = "NOT"
           THEN IF Len(condition.conditions) = 0
                  THEN thrown
                  ELSE LET inner == buildWhereSql(condition.conditions[1])
                       IN IF inner.ok
                            THEN [ok |-> TRUE, sql |-> Negation(inner.sql),
                                  args |-> inner.args]
                            ELSE thrown
           ELSE LET built == [i \in DOMAIN condition.conditions |->
                                buildWhereSql(condition.conditions[i])]
                IN IF \A i \in DOMAIN built : built[i].ok
                     THEN [ok |-> TRUE,
                           sql |-> Joined(condition.op, [i \in DOMAIN built |-> built[i].sql]),
                           args |-> Flatten([i \in DOMAIN built |-> built[i].args])]
                     ELSE thrown
    ELSE [ok |-> TRUE, sql |-> Comparison(safeOp(condition.operator)),
          args |-> <<pathOf(condition.field), condition.value>>]

\* the fragment and arguments list adds for options.where
whereSql(where) ==
  IF where.fn
    THEN buildWhereSql(where.tree)
    ELSE [ok |-> TRUE, sql |-> Comparison(safeOp(where.condition.operator)),
          args |-> <<pathOf(where.condition.field), where.condition.value>>]

\* a filter whose compilation never throws
throwsNever(where) == FALSE

\* list throws while it compiles the filter
throws(where) == where # NULL /\ ~whereSql(The(where)).ok

\* the comparison operators of the engine's SQL
sqlOperators == {"=", ">", "<", "LIKE", "!=", ">="}

\* the engine accepts the text: () and an unknown operator are syntax errors
RECURSIVE sqlValid(_)
sqlValid(frag) ==
  CASE frag.frag = "cmp" -> frag.op \in sqlOperators
    [] frag.frag = "not" -> sqlValid(frag.inner)
    [] frag.frag = "join" -> /\ Len(frag.parts) > 0
                             /\ \A i \in DOMAIN frag.parts : sqlValid(frag.parts[i])

\* the number of ? in a fragment
RECURSIVE argCount(_)
argCount(frag) ==
  CASE frag.frag = "cmp" -> 2
    [] frag.frag = "not" -> argCount(frag.inner)
    [] frag.frag = "join" -> Len(Flatten([i \in DOMAIN frag.parts |->
                                            [j \in 1 .. argCount(frag.parts[i]) |-> j]]))

\* the field names a caller passes
PathFieldNames == FieldNames \cup {"a.b"}

\* the member names of the path $.name: a dot in it starts the next member
fieldOfPath(path) == CHOOSE f \in PathFieldNames : pathOf(f) = path
pathSteps(path) ==
  CASE fieldOfPath(path) = "a.b" -> <<"a", "b">>
    [] OTHER -> <<fieldOfPath(path)>>

\* what json_extract returns: SQL NULL, an integer, or the text of an object
SqlNull == [type |-> "null", n |-> 0]
SqlInteger(n) == [type |-> "integer", n |-> n]
SqlText == [type |-> "text", n |-> 0]

\* the value a path leads to in a document: NULL when a member is missing
memberAt(j, steps) ==
  IF j.t # "obj" THEN SqlNull
  ELSE IF steps[1] \in DOMAIN j.o
    THEN IF Len(steps) = 1 THEN SqlInteger(j.o[steps[1]]) ELSE SqlNull
  ELSE IF steps[1] \in DOMAIN nestedOf(j)
    THEN IF Len(steps) = 1 THEN SqlText
         ELSE IF Len(steps) = 2 /\ steps[2] \in DOMAIN nestedOf(j)[steps[1]]
           THEN SqlInteger(nestedOf(j)[steps[1]][steps[2]])
           ELSE SqlNull
  ELSE SqlNull

\* json_extract(value_text, path)
jsonExtract(text, path) == memberAt(JSONParse(text), pathSteps(path))

\* SQL truth values: "T", "F" and "N" (NULL)
sqlBool(b) == IF b THEN "T" ELSE "F"
sqlNot(v) == CASE v = "T" -> "F" [] v = "F" -> "T" [] OTHER -> "N"
sqlAnd(vs) == IF \E i \in DOMAIN vs : vs[i] = "F" THEN "F"
              ELSE IF \E i \in DOMAIN vs : vs[i] = "N" THEN "N" ELSE "T"
sqlOr(vs) == IF \E i \in DOMAIN vs : vs[i] = "T" THEN "T"
             ELSE IF \E i \in DOMAIN vs : vs[i] = "N" THEN "N" ELSE "F"

\* x op v on an extracted value and an integer argument: NULL compares to
\* NULL, a text is greater than every number
sqlCompare(x, op, v) ==
  IF x.type = "null" THEN "N"
  ELSE IF x.type = "text" THEN sqlBool(op \in {">", "!=", ">="})
  ELSE CASE op = "=" -> sqlBool(x.n = v)
         [] op = ">" -> sqlBool(x.n > v)
         [] op = "<" -> sqlBool(x.n < v)
         [] op = "!=" -> sqlBool(x.n # v)
         [] op = ">=" -> sqlBool(x.n >= v)
         [] op = "LIKE" -> sqlBool(like(Spelling(NumberToString(v)),
                                        Spelling(NumberToString(x.n))))

\* the arguments left for part i of a joined fragment
argsFrom(parts, i, args) ==
  SubSeq(args, Len(Flatten([j \in 1 .. i - 1 |->
                              [n \in 1 .. argCount(parts[j]) |-> n]])) + 1, Len(args))

\* the value of a fragment on a row of type json
RECURSIVE sqlEval(_, _, _)
sqlEval(frag, args, row) ==
  CASE frag.frag = "cmp" ->
         sqlCompare(jsonExtract(The(row.value_text), args[1]), frag.op, args[2])
    [] frag.frag = "not" -> sqlNot(sqlEval(frag.inner, args, row))
    [] frag.frag = "join" ->
         LET vs == [i \in DOMAIN frag.parts |->
                      sqlEval(frag.parts[i], argsFrom(frag.parts, i, args), row)]
         IN IF frag.op = "AND" THEN sqlAnd(vs) ELSE sqlOr(vs)

\* a filter that rows of the other types pass
whereMatchesUngated(row, where) ==
  (where # NULL /\ row.value_type = "json")
    => sqlEval(whereSql(The(where)).sql, whereSql(The(where)).args, row) = "T"

\* if (options.where) ... AND value_type = 'json' AND (whereSql)
whereMatches(row, where) ==
  where # NULL
    => /\ row.value_type = "json"
       /\ sqlEval(whereSql(The(where)).sql, whereSql(The(where)).args, row) = "T"

\* the engine accepts the statement of list
statementValid(options) ==
  options.where # NULL => sqlValid(whereSql(The(options.where)).sql)

\* the options of list the model passes: prefix, limit and reverse
Prefixes == {NULL, Some(""), Some("a"), Some("A"), Some("a_")}
MaxLimit == 2
Limits == {NULL} \cup {Some(n) : n \in 0 .. MaxLimit}
ListOptions == [prefix : Prefixes, limit : Limits, reverse : BOOLEAN, where : {NULL}]
NoListOptions == [prefix |-> NULL, limit |-> NULL, reverse |-> FALSE, where |-> NULL]

\* the rows the WHERE clause of list keeps
listMatches(rows, options, t) ==
  {r \in rows : /\ listLive(r, t)
                 /\ prefixMatches(r, options.prefix)
                 /\ whereMatches(r, options.where)}

\* the rows the statement of list returns
listRows(rows, options, t) ==
  limitTo(orderBy(listMatches(rows, options, t), options.reverse), options.limit)

\* what list returns when its statement succeeds
listSlots(rows, options, t) ==
  LET rs == listRows(rows, options, t)
  IN [i \in DOMAIN rs |-> Some(Entry(rs[i]))]

list(s, options, fail) ==
  /\ exists(s)
  /\ IF throws(options.where)
       THEN lastOp' = [Op("list", s, <<>>, NULL, NULL, <<>>, "usage", <<>>)
                         EXCEPT !.options = Some(options)]
     ELSE IF readFails(s, fail)
       THEN lastOp' = [Op("list", s, <<>>, NULL, NULL, <<>>, errOf(s), <<"SELECT">>)
                         EXCEPT !.options = Some(options)]
     ELSE IF ~statementValid(options)
       THEN lastOp' = [Op("list", s, <<>>, NULL, NULL, <<>>, "exec", <<"SELECT">>)
                         EXCEPT !.options = Some(options)]
       ELSE lastOp' = [Op("list", s, <<>>, NULL, NULL, listSlots(rowsOf(s), options, now),
                          "none", <<"SELECT">>)
                         EXCEPT !.options = Some(options)]
  /\ UNCHANGED <<table, txTable, tx, now, nextVersion, pending, discarded,
                 txWritten, txGone, shadow, overwritten>>

(***************************************************************************)
(* LibSQLKV.transaction, KVTransaction.commit, rollback and close          *)
(***************************************************************************)
transaction(mode) ==
  /\ tx.state \in {"none"} \cup TxTerminal
  /\ tx' = [state |-> "open", mode |-> mode, wrote |-> {}]
  /\ txTable' = table
  /\ shadow' = table
  /\ txWritten' = {}
  /\ txGone' = {}
  /\ lastOp' = Op("transaction", "root", <<>>, NULL, NULL, <<>>, "none", <<>>)
  /\ UNCHANGED <<table, now, nextVersion, pending, discarded, overwritten>>

\* a commit that publishes nothing
commitNothing == table

\* a rollback that publishes the transaction's rows
rollbackPublishes == txTable

\* tx.commit(): the rows the root connection sees once the commit is done
commitRows == IF tx.mode = "write" THEN txTable ELSE table

\* tx.rollback() and tx.close(): the rows the root connection sees afterwards
rollbackRows == table

\* the handle is released: the transaction's own view of the rows is gone
released ==
  /\ txTable' = {}
  /\ txWritten' = {}
  /\ txGone' = {}

commit ==
  /\ exists("tx")
  /\ IF txOpen
       THEN /\ table' = commitRows
            /\ shadow' = commitRows
            /\ tx' = [tx EXCEPT !.state = "committed"]
            /\ released
            /\ lastOp' = Op("commit", "tx", <<>>, NULL, NULL, <<>>, "none", <<>>)
       ELSE /\ lastOp' = Op("commit", "tx", <<>>, NULL, NULL, <<>>, "closed", <<>>)
            /\ UNCHANGED <<table, tx, shadow, txTable, txWritten, txGone>>
  /\ UNCHANGED <<now, nextVersion, pending, discarded, overwritten>>

\* on a finished handle the driver either rejects the call or returns
\* without doing anything (reject)
rollback(reject) ==
  /\ exists("tx")
  /\ IF txOpen
       THEN /\ ~reject
            /\ table' = rollbackRows
            /\ tx' = [tx EXCEPT !.state = "rolledback"]
            /\ released
            /\ lastOp' = Op("rollback", "tx", <<>>, NULL, NULL, <<>>, "none", <<>>)
       ELSE /\ lastOp' = Op("rollback", "tx", <<>>, NULL, NULL, <<>>,
                            IF reject THEN "closed" ELSE "none", <<>>)
            /\ UNCHANGED <<table, tx, txTable, txWritten, txGone>>
  /\ UNCHANGED <<now, nextVersion, pending, discarded, shadow, overwritten>>

close ==
  /\ exists("tx")
  /\ IF txOpen
       THEN /\ table' = rollbackRows
            /\ tx' = [tx EXCEPT !.state = "closed"]
            /\ released
       ELSE UNCHANGED <<table, tx, txTable, txWritten, txGone>>
  /\ lastOp' = Op("close", "tx", <<>>, NULL, NULL, <<>>, "none", <<>>)
  /\ UNCHANGED <<now, nextVersion, pending, discarded, shadow, overwritten>>

\* wall-clock time passes
tick ==
  /\ now < MaxTime
  /\ now' = now + 1
  /\ UNCHANGED <<table, txTable, tx, nextVersion, pending, lastOp, discarded,
                 txWritten, txGone, shadow, overwritten>>

(***************************************************************************)
(* The root session on its own: callers of one LibSQLKV, the engine        *)
(* running the deletes they left behind, and the clock                     *)
(***************************************************************************)
Next ==
  \/ \E k \in Keys, v \in Values, e \in ExpireIns : set("root", k, v, e, FALSE)
  \/ \E k \in Keys : del("root", k, FALSE)
  \/ \E k \in Keys : CoreKV_get(k, FALSE)
  \/ \E keys \in KeySeqs : CoreKV_getMany(keys, FALSE)
  \/ list("root", NoListOptions, FALSE)
  \/ cleanupExpired("root", FALSE)
  \/ \E k \in Keys, fail \in BOOLEAN : lazyDelete(k, fail)
  \/ tick

Spec == Init /\ [][Next]_vars

(***************************************************************************)
(* The root session and a write transaction                                *)
(***************************************************************************)
NextTx ==
  \/ \E s \in Sessions, k \in Keys, v \in Values, e \in ExpireIns : set(s, k, v, e, FALSE)
  \/ \E s \in Sessions, k \in Keys : del(s, k, FALSE)
  \/ \E k \in Keys : CoreKV_get(k, FALSE)
  \/ \E k \in Keys, failDel \in BOOLEAN : KVTransaction_get(k, FALSE, failDel)
  \/ \E keys \in KeySeqs : KVTransaction_getMany(keys, FALSE)
  \/ \E s \in Sessions : list(s, NoListOptions, FALSE)
  \/ cleanupExpired("tx", FALSE)
  \/ transaction("write")
  \/ commit
  \/ \E reject \in BOOLEAN : rollback(reject)
  \/ close
  \/ tick

SpecTx == Init /\ [][NextTx]_vars

(***************************************************************************)
(* The root session with expireIn 0 among the options of set               *)
(***************************************************************************)
NextExpire ==
  \/ \E k \in Keys, v \in Values, e \in ExpireInsWithZero : set("root", k, v, e, FALSE)
  \/ \E k \in Keys : CoreKV_get(k, FALSE)
  \/ list("root", NoListOptions, FALSE)
  \/ tick

SpecExpire == Init /\ [][NextExpire]_vars

(***************************************************************************)
(* list with prefix, limit and reverse on the root session, over stores    *)
(* that hold up to three keys, some of them with an expiry                  *)
(***************************************************************************)
\* the stores that sets of the keys leave: every key absent, or holding one
\* of the records (value, expiresAt) of its choice
RECURSIVE StoresOf(_, _)
StoresOf(keys, choice) ==
  IF keys = {} THEN {{}}
  ELSE LET k == CHOOSE x \in keys : TRUE
       IN UNION {{rest} \cup {Upsert(rest, k, encodeValue(c.value), keyRank(k), c.expiresAt) :
                               c \in choice[k]} :
                   rest \in StoresOf(keys \ {k}, choice)}

Stored(value, expiresAt) == [value |-> value, expiresAt |-> expiresAt]

ListStores ==
  StoresOf(ListKeys, [k \in ListKeys |-> {Stored(StrV("1"), NULL), Stored(StrV("1"), Some(2))}])

InitOver(stores) ==
  /\ table \in stores
  /\ txTable = {}
  /\ tx = [state |-> "none", mode |-> "write", wrote |-> {}]
  /\ now = 1
  /\ nextVersion = Len(KeyOrder) + 1
  /\ pending = {}
  /\ lastOp = NoOp
  /\ discarded = FALSE
  /\ txWritten = {}
  /\ txGone = {}
  /\ shadow = table
  /\ overwritten = {}


NextList ==
  \/ \E options \in ListOptions : list("root", options, FALSE)
  \/ tick

SpecList == InitOver(ListStores) /\ [][NextList]_vars

(***************************************************************************)
(* list with a where option on the root session, over stores of two keys   *)
(* holding values of every type                                            *)
(***************************************************************************)
Obj(a, b) == JsonV(JsonObj([f \in FieldNames |-> IF f = "a" THEN a ELSE b]))
OnlyA(a) == JsonV(JsonObj([f \in {"a"} |-> a]))

WhereStores ==
  StoresOf(Keys,
           [k \in Keys |->
              IF k = "a"
                THEN {Stored(Obj(1, 1), NULL), Stored(Obj(2, 1), NULL), Stored(OnlyA(2), NULL),
                      Stored(JsonV(JsonNull), NULL), Stored(Obj(1, 1), Some(2))}
                ELSE {Stored(Obj(1, 2), NULL), Stored(Obj(2, 2), NULL), Stored(StrV("1"), NULL),
                      Stored(NumV(1), NULL), Stored(BoolV(TRUE), NULL),
                      Stored(BinV(<<1>>), NULL)}])

\* operators a caller passes: the five of the allow-list and two others
Operators == safeOps \cup {">=", "; --"}
Conditions == {Cond(f, op, v) : f \in FieldNames, op \in Operators, v \in 1 .. 2}

WhereOptions ==
  {[NoListOptions EXCEPT !.where = Some(w)] :
     w \in {WhereObject(c) : c \in Conditions}
             \cup {WhereCallback(Not(<<Cond("a", op, 1)>>)) : op \in Operators}
             \cup {WhereCallback(And(<<Cond("a", op, 1), Cond("b", "=", 2)>>)) :
                     op \in Operators}}


NextWhere ==
  \/ \E options \in WhereOptions : list("root", options, FALSE)
  \/ tick

SpecWhere == InitOver(WhereStores) /\ [][NextWhere]_vars

(***************************************************************************)
(* list with a single condition whose field name holds a dot, over stores  *)
(* of documents with a nested member and with a member of that name        *)
(***************************************************************************)
PathStores ==
  StoresOf(Keys,
           [k \in Keys |->
              {Stored(JsonV(NestedDoc), NULL), Stored(JsonV(DottedDoc), NULL),
               Stored(Obj(1, 1), NULL), Stored(OnlyA(2), NULL), Stored(StrV("1"), NULL),
               Stored(JsonV(DottedDoc), Some(2))}])

PathOptions ==
  {[NoListOptions EXCEPT !.where = Some(WhereObject(Cond(f, op, v)))] :
     f \in {"a.b", "b"}, op \in {"=", "!="}, v \in 1 .. 2}


NextPath ==
  \/ \E options \in PathOptions : list("root", options, FALSE)
  \/ tick

SpecPath == InitOver(PathStores) /\ [][NextPath]_vars

(***************************************************************************)
(* list with a logic tree on the root session, over stores of two keys     *)
(***************************************************************************)
TreeStores ==
  StoresOf(Keys,
           [k \in Keys |->
              IF k = "a"
                THEN {Stored(Obj(a, b), NULL) : a \in 1 .. 2, b \in 1 .. 2}
                ELSE {Stored(Obj(1, 2), NULL), Stored(Obj(2, 1), NULL),
                      Stored(StrV("1"), NULL)}])

\* the conditions at the leaves: a = 1, a = 2, b = 1, b = 2
LeavesA == {Cond("a", "=", v) : v \in 1 .. 2}
LeavesB == {Cond("b", "=", v) : v \in 1 .. 2}
Junctions == {"AND", "OR"}
Node(op, conditions) == [op |-> op, conditions |-> conditions]

Trees ==
  {Node(op, <<c>>) : op \in Junctions \cup {"NOT"}, c \in LeavesA}
    \cup {Node(op, <<c, d>>) : op \in Junctions, c \in LeavesA, d \in LeavesB}
    \cup {Node(op1, <<Node(op2, <<c, d>>), e>>) :
            op1 \in Junctions, op2 \in Junctions, c \in LeavesA, d \in LeavesB,
            e \in {Cond("a", "=", 2), Cond("b", "=", 1)}}
    \cup {Or(<<And(<<Cond("a", "=", 1), d>>), And(<<e, f>>)>>) :
            d \in LeavesB, e \in LeavesA, f \in LeavesB}
    \cup {Not(<<>>), Not(<<Not(<<>>)>>), And(<<Cond("a", "=", 1), Not(<<>>)>>),
          Or(<<Not(<<>>), Cond("a", "=", 1)>>), And(<<>>), Or(<<>>)}

TreeOptions == {[NoListOptions EXCEPT !.where = Some(WhereCallback(t))] : t \in Trees}


NextTree == \E options \in TreeOptions : list("root", options, FALSE)

SpecTree == InitOver(TreeStores) /\ [][NextTree]_vars

(***************************************************************************)
(* set and get on the root session with values of every kind               *)
(***************************************************************************)
CodecValues ==
  {StrV(""), StrV("1"), StrV("123"), StrV("true"), StrV("null"), StrV("NaN"),
   NumV(-1), NumV(0), NumV(1), NumV(12), NegZero, NaN,
   BoolV(TRUE), BoolV(FALSE),
   JsonV(JsonNull), JsonV(JsonObj(<<>>)), Obj(1, 2), OnlyA(1), JsonV(NestedDoc),
   JsonV(JsonArr(<<>>)), JsonV(JsonArr(<<1, 2>>)),
   BinV(<<>>), BinV(<<1>>), BinV(<<0, 255>>)}

NextCodec ==
  \/ \E k \in Keys, v \in CodecValues : set("root", k, v, NULL, FALSE)
  \/ \E k \in Keys : CoreKV_get(k, FALSE)
  \/ \E k \in Keys : del("root", k, FALSE)

SpecCodec == Init /\ [][NextCodec]_vars

(***************************************************************************)
(* Both sessions writing values of every kind under one key: set, del,     *)
(* cleanupExpired, get and getMany on the root session and in a write      *)
(* transaction                                                             *)
(***************************************************************************)
\* one value of each kind
KindValues == {StrV("1"), NumV(1), BoolV(TRUE), Obj(1, 2), BinV(<<1>>)}

NextRows ==
  \/ \E s \in Sessions, v \in KindValues, e \in ExpireIns : set(s, "a", v, e, FALSE)
  \/ \E s \in Sessions : del(s, "a", FALSE)
  \/ \E s \in Sessions : cleanupExpired(s, FALSE)
  \/ \E k \in Keys : CoreKV_get(k, FALSE)
  \/ \E keys \in KeySeqs : CoreKV_getMany(keys, FALSE)
  \/ \E k \in Keys, failDel \in BOOLEAN : KVTransaction_get(k, FALSE, failDel)
  \/ \E keys \in KeySeqs : KVTransaction_getMany(keys, FALSE)
  \/ \E k \in Keys, fail \in BOOLEAN : lazyDelete(k, fail)
  \/ transaction("write")
  \/ commit
  \/ tick

SpecRows == Init /\ [][NextRows]_vars

(***************************************************************************)
(* Reads on the root session over a table that another writer has put rows *)
(* into: the CHECK constraint of value_type lets NULL through, and CREATE   *)
(* TABLE IF NOT EXISTS keeps a table made with another schema               *)
(***************************************************************************)
KnownTypes == {"json", "string", "number", "binary", "boolean"}

\* type tags of rows this code has not written: "NULL" stands for the SQL
\* NULL, "text" is a tag of another schema
ForeignTypes == {"NULL", "text"}

ForeignRows ==
  {[key |-> "b", value_blob |-> NULL, value_text |-> Some(text), value_type |-> type,
    version |-> keyRank("b"), expires_at |-> e] :
     text \in {"1", "true"}, type \in ForeignTypes, e \in {NULL, Some(2)}}
    \cup {[key |-> "b", value_blob |-> Some(<<1>>), value_text |-> NULL, value_type |-> type,
            version |-> keyRank("b"), expires_at |-> NULL] : type \in ForeignTypes}

ForeignStores ==
  {rest \cup {row} :
     rest \in StoresOf({"a"}, [k \in {"a"} |-> {Stored(StrV("1"), NULL), Stored(NumV(1), Some(2))}]),
     row \in ForeignRows}


NextForeign ==
  \/ \E k \in Keys : CoreKV_get(k, FALSE)
  \/ \E keys \in KeySeqs : CoreKV_getMany(keys, FALSE)
  \/ list("root", NoListOptions, FALSE)
  \/ \E k \in Keys, fail \in BOOLEAN : lazyDelete(k, fail)
  \/ tick

SpecForeign == InitOver(ForeignStores) /\ [][NextForeign]_vars

(***************************************************************************)
(* Both sessions over an engine that may fail any statement; the writes    *)
(* are on one key, the reads on both                                       *)
(***************************************************************************)
NextFail ==
  \/ \E s \in Sessions, e \in ExpireIns, fail \in BOOLEAN : set(s, "a", StrV("1"), e, fail)
  \/ \E s \in Sessions, fail \in BOOLEAN : del(s, "a", fail)
  \/ \E s \in Sessions, fail \in BOOLEAN : cleanupExpired(s, fail)
  \/ \E s \in Sessions, fail \in BOOLEAN : list(s, NoListOptions, fail)
  \/ \E k \in Keys, fail \in BOOLEAN : CoreKV_get(k, fail)
  \/ \E keys \in KeySeqs, fail \in BOOLEAN : CoreKV_getMany(keys, fail)
  \/ \E k \in Keys, fail \in BOOLEAN, failDel \in BOOLEAN : KVTransaction_get(k, fail, failDel)
  \/ \E keys \in KeySeqs, fail \in BOOLEAN : KVTransaction_getMany(keys, fail)
  \/ \E k \in Keys, fail \in BOOLEAN : lazyDelete(k, fail)
  \/ transaction("write")
  \/ commit
  \/ tick

SpecFail == Init /\ [][NextFail]_vars

(***************************************************************************)
(* The root session and a transaction of either mode, reading keys the     *)
(* root session has set                                                    *)
(***************************************************************************)
NextRead ==
  \/ \E k \in Keys, e \in ExpireIns : set("root", k, StrV("1"), e, FALSE)
  \/ \E k \in Keys : CoreKV_get(k, FALSE)
  \/ \E keys \in KeySeqs : CoreKV_getMany(keys, FALSE)
  \/ \E k \in Keys : KVTransaction_get(k, FALSE, FALSE)
  \/ \E keys \in KeySeqs : KVTransaction_getMany(keys, FALSE)
  \/ list("tx", NoListOptions, FALSE)
  \/ \E k \in Keys : lazyDelete(k, FALSE)
  \/ \E mode \in TxModes : transaction(mode)
  \/ commit
  \/ tick

SpecRead == Init /\ [][NextRead]_vars

(***************************************************************************)
(* The root session over an engine that fails no statement and in the end  *)
(* runs every delete a read has left behind                                *)
(***************************************************************************)
NextLive ==
  \/ \E k \in Keys, v \in Values, e \in ExpireIns : set("root", k, v, e, FALSE)
  \/ \E k \in Keys : CoreKV_get(k, FALSE)
  \/ \E keys \in KeySeqs : CoreKV_getMany(keys, FALSE)
  \/ cleanupExpired("root", FALSE)
  \/ \E k \in Keys : lazyDelete(k, FALSE)
  \/ tick

SpecLive ==
  Init /\ [][NextLive]_vars /\ \A k \in Keys : WF_vars(lazyDelete(k, FALSE))

(***************************************************************************)
(* The reads of the root session over stores that hold live and expired    *)
(* rows: get, getMany, and list with options of every kind                 *)
(***************************************************************************)
PureStores ==
  StoresOf(Keys,
           [k \in Keys |->
              {Stored(Obj(1, 1), NULL), Stored(Obj(1, 1), Some(2)), Stored(StrV("1"), Some(3))}])

PureListOptions ==
  {NoListOptions,
   [NoListOptions EXCEPT !.prefix = Some("a")],
   [NoListOptions EXCEPT !.limit = Some(1), !.reverse = TRUE],
   [NoListOptions EXCEPT !.where = Some(WhereObject(Cond("a", "=", 1)))],
   [NoListOptions EXCEPT !.where = Some(WhereCallback(Not(<<Cond("a", "=", 1)>>)))],
   [NoListOptions EXCEPT !.where = Some(WhereCallback(Not(<<>>)))],
   [NoListOptions EXCEPT !.where = Some(WhereCallback(And(<<>>)))]}


NextPure ==
  \/ \E k \in Keys : CoreKV_get(k, FALSE)
  \/ \E keys \in KeySeqs : CoreKV_getMany(keys, FALSE)
  \/ \E options \in PureListOptions : list("root", options, FALSE)
  \/ \E k \in Keys, fail \in BOOLEAN : lazyDelete(k, fail)
  \/ tick

SpecPure == InitOver(PureStores) /\ [][NextPure]_vars

(***************************************************************************)
(* list on the root session with one condition in each of its forms: the   *)
(* condition itself, and(c) and or(c), with other options beside it        *)
(***************************************************************************)
FormConditions ==
  {Cond("a", "=", 1), Cond("a", ">", 1), Cond("a", ">=", 1), Cond("a", "LIKE", 2),
   Cond("a", "!=", 2), Cond("b", "=", 2)}

FormOptions ==
  {[o EXCEPT !.where = Some(w)] :
     o \in {NoListOptions, [NoListOptions EXCEPT !.prefix = Some("a")],
            [NoListOptions EXCEPT !.limit = Some(1), !.reverse = TRUE]},
     w \in {WhereObject(c) : c \in FormConditions}
             \cup {WhereCallback(And(<<c>>)) : c \in FormConditions}
             \cup {WhereCallback(Or(<<c>>)) : c \in FormConditions}}

FormStores ==
  StoresOf(Keys,
           [k \in Keys |->
              IF k = "a"
                THEN {Stored(Obj(1, 1), NULL), Stored(Obj(2, 1), NULL), Stored(OnlyA(2), Some(2))}
                ELSE {Stored(Obj(1, 2), NULL), Stored(Obj(2, 2), NULL), Stored(StrV("1"), NULL)}])


NextForms ==
  \/ \E options \in FormOptions : list("root", options, FALSE)
  \/ tick

SpecForms == InitOver(FormStores) /\ [][NextForms]_vars

(***************************************************************************)
(* list on the root session with a filter and with not(filter), over       *)
(* stores whose JSON entries may lack a field the filter refers to         *)
(***************************************************************************)
\* the filters f: conditions, and / or of two conditions, and a negation
NotChildren ==
  {Cond("a", "=", 1), Cond("b", "=", 2), Cond("b", "!=", 2), Cond("b", ">", 1),
   And(<<Cond("a", "=", 1), Cond("b", "=", 2)>>),
   Or(<<Cond("a", "=", 2), Cond("b", "=", 2)>>),
   Not(<<Cond("b", "=", 2)>>)}

NotStores ==
  StoresOf(Keys,
           [k \in Keys |->
              IF k = "a"
                THEN {Stored(Obj(1, 1), NULL), Stored(Obj(1, 2), NULL), Stored(OnlyA(1), NULL),
                      Stored(Obj(1, 2), Some(2))}
                ELSE {Stored(Obj(2, 2), NULL), Stored(OnlyA(2), NULL), Stored(StrV("1"), NULL),
                      Stored(JsonV(JsonNull), NULL)}])

\* where: f as the caller writes it (the condition itself, or the callback
\* that returns the tree), and where: ({ not }) => not(f)
NextNot ==
  \/ \E f \in NotChildren :
       list("root", [NoListOptions EXCEPT !.where =
                       Some(IF isLogic(f) THEN WhereCallback(f) ELSE WhereObject(f))], FALSE)
  \/ \E f \in NotChildren :
       list("root", [NoListOptions EXCEPT !.where = Some(WhereCallback(Not(<<f>>)))], FALSE)
  \/ tick

SpecNot == InitOver(NotStores) /\ [][NextNot]_vars

(***************************************************************************)
(* Properties                                                              *)
(***************************************************************************)
hasRow(rows, k) == SelectKeys(rows, {k}) # {}
rowOf(rows, k) == firstRow(SelectKeys(rows, {k}))
listedKeys(rows, t) == {listRows(rows, NoListOptions, t)[i].key :
                          i \in DOMAIN listRows(rows, NoListOptions, t)}

\* C1: a key set with expireIn = d > 0 at time t (expires_at = t + d) and not
\* written since is returned by a root get at every now < t + d and is absent
\* at every now >= t + d, the instant now = t + d included.
C1_GetExpiryBoundary ==
  [][\A k \in Keys :
       (CoreKV_get(k, FALSE) /\ hasRow(table, k) /\ rowOf(table, k).expires_at # NULL)
         => ((lastOp'.res[1] # NULL) <=> (now < The(rowOf(table, k).expires_at)))]_vars

\* C2: at every store state and clock value a key is in list() (no options)
\* exactly when get of that key returns an entry; a row with expires_at = now
\* is treated the same way by both.
C2_ListAgreesWithGet ==
  \A k \in Keys : (k \in listedKeys(table, now)) <=> (getSlot(table, k, now) # NULL)

entryOf(w) == [key |-> w.key, value |-> w.value, version |-> w.version]
liveAt(w, t) == w.until = NULL \/ t < The(w.until)

\* the session, key, value and options of the call a step has made
callSess == lastOp'.sess
callKey == lastOp'.keys[1]
callKeys == lastOp'.keys
called(op, s) == lastOp'.op = op /\ lastOp'.sess = s

\* C3: a set on a key replaces the whole row: afterwards the session holds
\* exactly one row for the key, with the new value and its type, a version
\* different from the replaced row's, and the expiry of the new options alone
\* (none when expireIn is not given); get returns the new value.
C3_UpsertReplaces ==
  [][(/\ lastOp'.op = "set" /\ lastOp'.err = "none"
      /\ set(callSess, callKey, The(lastOp'.val), lastOp'.expireIn, FALSE))
       => LET k == callKey
              v == The(lastOp'.val)
              e == lastOp'.expireIn
              after == IF callSess = "root" THEN table' ELSE txTable'
              before == IF callSess = "root" THEN table ELSE txTable
          IN /\ Cardinality(SelectKeys(after, {k})) = 1
             /\ \A r \in SelectKeys(after, {k}) :
                  /\ r.value_type = v.kind
                  /\ decodeValue(r) = v
                  /\ \A q \in SelectKeys(before, {k}) : r.version # q.version
                  /\ e = NULL => r.expires_at = NULL
                  /\ (e # NULL /\ The(e) > 0) => r.expires_at = Some(now + The(e))
                  /\ getSlot(after, k, now) =
                       Some([key |-> k, value |-> v, version |-> r.version])]_vars

\* C3 witness: a set has just replaced an existing row of its key
C3_Witness ==
  /\ lastOp.op = "set" /\ lastOp.err = "none"
  /\ overwritten # {}
  /\ lastOp.expireIn = NULL
  /\ hasRow(rowsOf(lastOp.sess), lastOp.keys[1])
  /\ rowOf(rowsOf(lastOp.sess), lastOp.keys[1]).version \notin overwritten
  /\ decodeValue(rowOf(rowsOf(lastOp.sess), lastOp.keys[1])) = The(lastOp.val)

\* C4: a root getMany returns one slot per key, slot i being what get of
\* keys[i] returns on the same rows and clock (duplicates, missing and
\* expired keys included); getMany of no keys returns the empty list and
\* issues no statement.
C4_GetManySlots ==
  [][(called("getMany", "root") /\ CoreKV_getMany(callKeys, FALSE))
       => /\ lastOp'.err = "none"
          /\ Len(lastOp'.res) = Len(callKeys)
          /\ \A i \in DOMAIN callKeys : lastOp'.res[i] = getSlot(table, callKeys[i], now)
          /\ callKeys = <<>> => (lastOp'.res = <<>> /\ lastOp'.stmts = <<>>)]_vars

\* C4 witness: a getMany of the same key twice returned its entry in both slots
C4_Witness ==
  /\ lastOp.op = "getMany" /\ lastOp.sess = "root" /\ lastOp.err = "none"
  /\ Len(lastOp.keys) = 2 /\ lastOp.keys[1] = lastOp.keys[2]
  /\ lastOp.res[1] # NULL /\ lastOp.res[2] = lastOp.res[1]

\* C5: in an open transaction a get of a key the transaction has set returns
\* the written value before the commit, and no root get before the commit
\* returns that write.
C5_ReadYourWrites ==
  [][/\ (/\ called("get", "tx") /\ txOpen
         /\ \E f \in BOOLEAN : KVTransaction_get(callKey, FALSE, f))
          => \A w \in txWritten :
               (w.key = callKey /\ liveAt(w, now))
                 => (lastOp'.err = "none" /\ lastOp'.res = <<Some(entryOf(w))>>)
     /\ (called("get", "root") /\ txOpen /\ CoreKV_get(callKey, FALSE))
          => \A w \in txWritten : lastOp'.res # <<Some(entryOf(w))>>]_vars

\* C5 witness: the transaction has read back its own uncommitted write, which
\* a root get does not return
C5_Witness ==
  /\ txOpen
  /\ lastOp.op = "get" /\ lastOp.sess = "tx"
  /\ \E w \in txWritten :
       /\ lastOp.res = <<Some(entryOf(w))>>
       /\ getSlot(table, w.key, now) # Some(entryOf(w))

\* what the root session observes through get, getMany and list
rootView(rows, t) ==
  [get |-> [k \in Keys |-> getSlot(rows, k, t)],
   getMany |-> [keys \in KeySeqs |-> getManySlots(rows, keys, t)],
   list |-> listSlots(rows, NoListOptions, t)]

\* C6: after a rollback the root session observes, through get, getMany and
\* list, what it would observe had the transaction not been opened.
C6_RollbackInvisible ==
  tx.state = "rolledback" => rootView(table, now) = rootView(shadow, now)

\* C6 witness: a transaction that had set a key has been rolled back
C6_Witness ==
  /\ tx.state = "rolledback" /\ lastOp.op = "rollback"
  /\ "INSERT" \in tx.wrote

\* C7: a commit makes every write of the transaction visible to the root
\* session in one step: each key it set holds the written value and version,
\* each key it deleted is absent.
C7_CommitPublishes ==
  [][(called("commit", "tx") /\ txOpen /\ commit)
       => /\ \A w \in txWritten :
               /\ hasRow(table', w.key)
               /\ rowOf(table', w.key).version = w.version
               /\ decodeValue(rowOf(table', w.key)) = w.value
               /\ liveAt(w, now) => getSlot(table', w.key, now) = Some(entryOf(w))
          /\ \A k \in txGone : ~hasRow(table', k) /\ getSlot(table', k, now) = NULL]_vars

\* C7 witness: a transaction that had set a key and deleted one has committed
C7_Witness ==
  /\ tx.state = "committed" /\ lastOp.op = "commit" /\ lastOp.err = "none"
  /\ tx.wrote = {"INSERT", "DELETE"}
  /\ table # {}

\* C8: on a transaction that was committed, rolled back or closed, every
\* further get, getMany, set, del, list, cleanupExpired, commit and rollback
\* fails with an error and changes no rows.
C8_TerminalSessionFails ==
  [][(/\ tx.state \in TxTerminal
      /\ lastOp' # lastOp
      /\ lastOp'.sess = "tx"
      /\ lastOp'.op \in {"get", "getMany", "set", "del", "list", "cleanupExpired",
                         "commit", "rollback"})
       => (lastOp'.err # "none" /\ table' = table /\ txTable' = txTable)]_vars

\* C9: a root get or getMany that finds an expired row returns absent for it
\* without waiting for the delete it issues, and the outcome of that delete
\* reaches no caller: a failure is discarded.
C9_LazyDeleteNotAwaited ==
  [][/\ (/\ called("get", "root") /\ foundExpired(table, callKey, now)
         /\ CoreKV_get(callKey, FALSE))
          => /\ lastOp'.err = "none" /\ lastOp'.res = <<NULL>>
             /\ table' = table
             /\ callKey \in pending'
     /\ (/\ called("getMany", "root") /\ expiredOf(table, callKeys, now) # {}
         /\ CoreKV_getMany(callKeys, FALSE))
          => /\ lastOp'.err = "none" /\ Len(lastOp'.res) = Len(callKeys)
             /\ \A i \in DOMAIN callKeys :
                  foundExpired(table, callKeys[i], now) => lastOp'.res[i] = NULL
             /\ table' = table
             /\ {r.key : r \in expiredOf(table, callKeys, now)} \subseteq pending'
     /\ \A k \in pending, fail \in BOOLEAN :
          lazyDelete(k, fail) => (lastOp' = lastOp /\ (fail => table' = table))]_vars

\* C9 witness: the delete issued by a get failed, the get had returned absent
\* and the expired row is still stored
C9_Witness ==
  /\ discarded
  /\ lastOp.op = "get" /\ lastOp.sess = "root"
  /\ lastOp.err = "none" /\ lastOp.res = <<NULL>>
  /\ foundExpired(table, lastOp.keys[1], now)

\* C10: when a get or getMany of a transaction returns absent for a key, the
\* transaction holds no row of that key (the delete of an expired row is
\* done), and after the commit the root holds no row the transaction deleted.
C10_TxDeleteAwaited ==
  [][/\ (/\ called("get", "tx") /\ lastOp'.err = "none" /\ lastOp'.res = <<NULL>>
         /\ \E f \in BOOLEAN : KVTransaction_get(callKey, FALSE, f))
          => ~hasRow(txTable', callKey)
     /\ (/\ called("getMany", "tx") /\ lastOp'.err = "none"
         /\ KVTransaction_getMany(callKeys, FALSE))
          => \A i \in DOMAIN callKeys :
               lastOp'.res[i] = NULL => ~hasRow(txTable', callKeys[i])
     /\ (called("commit", "tx") /\ txOpen /\ commit)
          => \A k \in txGone : ~hasRow(table', k)]_vars

\* C10 witness: a get of the transaction found an expired row, deleted it and
\* returned absent
C10_Witness ==
  /\ txOpen
  /\ lastOp.op = "get" /\ lastOp.sess = "tx" /\ lastOp.err = "none"
  /\ lastOp.res = <<NULL>> /\ lastOp.stmts = <<"SELECT", "DELETE">>
  /\ lastOp.keys[1] \in txGone

\* C11: a root cleanupExpired at time t removes exactly the rows whose
\* expires_at is set and <= t, and leaves every other row as it was.
C11_CleanupRemovesExpired ==
  [][(called("cleanupExpired", "root") /\ cleanupExpired("root", FALSE))
       => /\ lastOp'.err = "none"
          /\ table' = {r \in table : r.expires_at = NULL \/ The(r.expires_at) > now}]_vars

\* C12: a set stores expires_at = now + expireIn whenever expireIn is given,
\* the number 0 included, and no expiry only when expireIn is not given.
C12_ExpireInStored ==
  [][(/\ called("set", "root") /\ lastOp'.err = "none"
      /\ set("root", callKey, The(lastOp'.val), lastOp'.expireIn, FALSE))
       => /\ hasRow(table', callKey)
          /\ rowOf(table', callKey).expires_at =
               (IF lastOp'.expireIn = NULL THEN NULL
                ELSE Some(now + The(lastOp'.expireIn)))]_vars

\* C13: a root del succeeds whether or not the key is stored, get of the key
\* is absent afterwards, a del of a key that is not stored changes no row,
\* and so does the second of two dels of the same key.
C13_DelIdempotent ==
  [][(called("del", "root") /\ del("root", callKey, FALSE))
       => /\ lastOp'.err = "none"
          /\ ~hasRow(table', callKey)
          /\ getSlot(table', callKey, now) = NULL
          /\ ~hasRow(table, callKey) => table' = table
          /\ lastOp'.again => table' = table]_vars

\* C13 witness: the second of two dels of one key has succeeded, the key is
\* absent and the row of the other key is still stored
C13_Witness ==
  /\ lastOp.op = "del" /\ lastOp.sess = "root" /\ lastOp.err = "none" /\ lastOp.again
  /\ ~hasRow(table, lastOp.keys[1])
  /\ table # {}

\* the options of the list call a step has made
callOptions == The(lastOp'.options)
resultKeys(res) == [i \in DOMAIN res |-> The(res[i]).key]

\* a is a character-for-character prefix of b
isPrefix(a, b) == Len(a) <= Len(b) /\ SubSeq(b, 1, Len(a)) = a

\* the rows that are live at t the way list and the contract see them
liveRows(rows, t) == {r \in rows : r.expires_at = NULL \/ The(r.expires_at) > t}

\* C14: list with a prefix p returns exactly the live keys of which p is a
\* character-for-character prefix: % and _ in p stand for themselves and
\* letter case is significant.
C14_PrefixIsLiteral ==
  [][(/\ called("list", "root") /\ callOptions.prefix # NULL
      /\ callOptions.limit = NULL /\ callOptions.where = NULL
      /\ list("root", callOptions, FALSE))
       => {The(lastOp'.res[i]).key : i \in DOMAIN lastOp'.res} =
            {r.key : r \in {q \in liveRows(table, now) :
                              isPrefix(Spelling(The(callOptions.prefix)), Spelling(q.key))}}]_vars

\* the number of rows the options other than limit match
matchCount(rows, options, t) == Cardinality(listMatches(rows, options, t))
min(a, b) == IF a < b THEN a ELSE b

\* C15: list with a limit n >= 0 returns min(n, m) entries, m being the
\* number of rows the other options match, n = 0 included (no entries); with
\* no limit it returns all m.
C15_LimitCaps ==
  [][(called("list", "root") /\ callOptions.where = NULL /\ list("root", callOptions, FALSE))
       => Len(lastOp'.res) =
            (IF callOptions.limit = NULL THEN matchCount(table, callOptions, now)
             ELSE min(The(callOptions.limit), matchCount(table, callOptions, now)))]_vars

\* the code unit of a character
codeOf(c) == CASE c = "%" -> 37 [] c = "1" -> 49 [] c = "2" -> 50 [] c = "3" -> 51
               [] c = "A" -> 65 [] c = "_" -> 95 [] c = "a" -> 97 [] c = "b" -> 98

\* lexicographic order of two strings by their characters
RECURSIVE lexLess(_, _)
lexLess(a, b) ==
  IF b = <<>> THEN FALSE
  ELSE IF a = <<>> THEN TRUE
  ELSE IF Head(a) = Head(b) THEN lexLess(Tail(a), Tail(b))
  ELSE codeOf(Head(a)) < codeOf(Head(b))

callWhere == The(callOptions.where)
resultKeySet(res) == {The(res[i]).key : i \in DOMAIN res}

\* the comparison of a condition on a JSON document, read on the document
\* itself: the document is an object, has the field, and the field compares
satisfies(j, c) ==
  /\ j.t = "obj"
  /\ c.field \in DOMAIN j.o
  /\ CASE c.operator = "=" -> j.o[c.field] = c.value
       [] c.operator = ">" -> j.o[c.field] > c.value
       [] c.operator = "<" -> j.o[c.field] < c.value
       [] c.operator = "!=" -> j.o[c.field] # c.value
       [] c.operator = "LIKE" -> NumberToString(j.o[c.field]) = NumberToString(c.value)

\* the live entries of type json
liveJson(rows, t) == {r \in liveRows(rows, t) : decodeValue(r).kind = "json"}

\* C17: a list with a where option, a filter with NOT at its root included,
\* returns entries of type json only; with a single condition of an
\* allow-listed operator it returns exactly the live JSON entries whose
\* top-level field satisfies the comparison.
C17_WhereJsonOnly ==
  [][(/\ called("list", "root") /\ lastOp'.err = "none" /\ callOptions.where # NULL
      /\ list("root", callOptions, FALSE))
       => /\ \A i \in DOMAIN lastOp'.res :
               /\ The(lastOp'.res[i]).value.kind = "json"
               /\ rowOf(table, The(lastOp'.res[i]).key).value_type = "json"
          /\ (~callWhere.fn /\ callWhere.condition.operator \in safeOps)
               => resultKeySet(lastOp'.res) =
                    {r.key : r \in {q \in liveJson(table, now) :
                       satisfies(decodeValue(q).v, callWhere.condition)}}]_vars

\* C17 witness: list with the condition a > 1 has returned the JSON entry of
\* key a and not the entry of another type stored under key b
C17_Witness ==
  /\ lastOp.op = "list" /\ lastOp.err = "none"
  /\ The(lastOp.options).where = Some(WhereObject(Cond("a", ">", 1)))
  /\ hasRow(table, "b") /\ rowOf(table, "b").value_type # "json"
  /\ resultKeys(lastOp.res) = <<"a">>

\* a tree of and/or nodes with at least one child each over conditions of
\* allow-listed operators
RECURSIVE isAndOrTree(_)
isAndOrTree(t) ==
  IF "op" \in DOMAIN t
    THEN /\ t.op \in {"AND", "OR"}
         /\ Len(t.conditions) > 0
         /\ \A i \in DOMAIN t.conditions : isAndOrTree(t.conditions[i])
    ELSE t.operator \in safeOps

\* the fields a tree refers to
RECURSIVE fieldsOf(_)
fieldsOf(t) ==
  IF "op" \in DOMAIN t
    THEN UNION {fieldsOf(t.conditions[i]) : i \in DOMAIN t.conditions}
    ELSE {t.field}

\* the value of a tree on a JSON document under ordinary boolean semantics
RECURSIVE truth(_, _)
truth(t, j) ==
  IF "op" \in DOMAIN t
    THEN IF t.op = "AND"
           THEN \A i \in DOMAIN t.conditions : truth(t.conditions[i], j)
           ELSE \E i \in DOMAIN t.conditions : truth(t.conditions[i], j)
    ELSE satisfies(j, t)

\* every JSON entry of the store is an object that has the fields
allHaveFields(rows, fields) ==
  \A r \in rows : decodeValue(r).kind = "json"
                    => (decodeValue(r).v.t = "obj" /\ fields \subseteq DOMAIN decodeValue(r).v.o)

\* C18: for a tree of nested and/or nodes over JSON entries that contain the
\* fields it refers to, list returns exactly the live JSON entries on which
\* the tree is true, AND being all children and OR at least one, nested as
\* the tree is written.
C18_TreeIsBoolean ==
  [][(/\ called("list", "root") /\ callOptions.where # NULL /\ callWhere.fn
      /\ isAndOrTree(callWhere.tree)
      /\ allHaveFields(table, fieldsOf(callWhere.tree))
      /\ list("root", callOptions, FALSE))
       => /\ lastOp'.err = "none"
          /\ resultKeySet(lastOp'.res) =
               {r.key : r \in {q \in liveJson(table, now) :
                  truth(callWhere.tree, decodeValue(q).v)}}]_vars

\* C18 witness: (a = 1 AND b = 2) OR (a = 2 AND b = 1) over the entries
\* {a: 1, b: 1} and {a: 2, b: 1} has returned the second one only
C18_Witness ==
  /\ lastOp.op = "list" /\ lastOp.err = "none"
  /\ The(lastOp.options).where =
       Some(WhereCallback(Or(<<And(<<Cond("a", "=", 1), Cond("b", "=", 2)>>),
                               And(<<Cond("a", "=", 2), Cond("b", "=", 1)>>)>>)))
  /\ hasRow(table, "a") /\ decodeValue(rowOf(table, "a")) = Obj(1, 1)
  /\ hasRow(table, "b") /\ decodeValue(rowOf(table, "b")) = Obj(2, 1)
  /\ resultKeys(lastOp.res) = <<"b">>

\* the operators in the text of a fragment
RECURSIVE opsIn(_)
opsIn(frag) ==
  CASE frag.frag = "cmp" -> {frag.op}
    [] frag.frag = "not" -> opsIn(frag.inner)
    [] frag.frag = "join" -> UNION {opsIn(frag.parts[i]) : i \in DOMAIN frag.parts}

\* a filter with every operator outside the allow-list replaced by "="
RECURSIVE withEquals(_)
withEquals(t) ==
  IF "op" \in DOMAIN t
    THEN [t EXCEPT !.conditions = [i \in DOMAIN t.conditions |-> withEquals(t.conditions[i])]]
    ELSE IF t.operator \in {"=", ">", "<", "LIKE", "!="} THEN t
         ELSE [t EXCEPT !.operator = "="]
whereWithEquals(where) ==
  IF where.fn THEN WhereCallback(withEquals(where.tree))
  ELSE WhereObject(withEquals(where.condition))

\* C19: whatever operators the conditions of a filter carry, single
\* condition or leaves of a tree, the text list issues holds only operators
\* of {=, >, <, LIKE, !=}; an operator outside it is compiled as "=", the
\* call raises no error and returns what the filter with "=" returns.
C19_OperatorAllowList ==
  [][(/\ called("list", "root") /\ callOptions.where # NULL
      /\ list("root", callOptions, FALSE))
       => /\ lastOp'.err = "none" /\ lastOp'.stmts = <<"SELECT">>
          /\ opsIn(whereSql(callWhere).sql) \subseteq {"=", ">", "<", "LIKE", "!="}
          /\ whereSql(callWhere) = whereSql(whereWithEquals(callWhere))
          /\ lastOp'.res =
               listSlots(table, [callOptions EXCEPT !.where = Some(whereWithEquals(callWhere))],
                         now)]_vars

\* C19 witness: list with a condition whose operator is "; --" has returned
\* the entry whose field a equals 2
C19_Witness ==
  /\ lastOp.op = "list" /\ lastOp.err = "none"
  /\ The(lastOp.options).where = Some(WhereObject(Cond("a", "; --", 2)))
  /\ hasRow(table, "a") /\ decodeValue(rowOf(table, "a")) = Obj(2, 1)
  /\ resultKeys(lastOp.res) = <<"a">>

\* the compilation of the tree comes to a NOT node that has no child
RECURSIVE hasEmptyNot(_)
hasEmptyNot(t) ==
  IF "op" \in DOMAIN t
    THEN IF t.op = "NOT"
           THEN Len(t.conditions) = 0 \/ hasEmptyNot(t.conditions[1])
           ELSE \E i \in DOMAIN t.conditions : hasEmptyNot(t.conditions[i])
    ELSE FALSE

\* C20: a list whose filter holds a NOT node without children fails with a
\* usage error raised while the filter is compiled: no statement is issued
\* and no row changes.
C20_EmptyNotIsUsageError ==
  [][(/\ called("list", "root") /\ callOptions.where # NULL /\ callWhere.fn
      /\ hasEmptyNot(callWhere.tree)
      /\ list("root", callOptions, FALSE))
       => /\ lastOp'.err = "usage"
          /\ lastOp'.stmts = <<>> /\ lastOp'.res = <<>>
          /\ table' = table]_vars

\* C20 witness: list with the filter (a = 1 AND NOT()) over a store that
\* holds rows has failed with the usage error and issued nothing
C20_Witness ==
  /\ lastOp.op = "list" /\ lastOp.err = "usage" /\ lastOp.stmts = <<>>
  /\ The(lastOp.options).where = Some(WhereCallback(And(<<Cond("a", "=", 1), Not(<<>>)>>)))
  /\ table # {}

\* C21: a get that follows the set of a value on the same key returns a value
\* equal to the one set and of the same kind, for strings (the strings
\* "123", "true" and "null" included), numbers, booleans, JSON null, objects
\* and arrays, and byte sequences.
C21_RoundTrip ==
  [][(/\ called("get", "root") /\ lastOp'.err = "none"
      /\ lastOp.op = "set" /\ lastOp.err = "none" /\ lastOp.keys = callKeys
      /\ CoreKV_get(callKey, FALSE))
       => /\ lastOp'.res[1] # NULL
          /\ The(lastOp'.res[1]).value.kind = The(lastOp.val).kind
          /\ The(lastOp'.res[1]).value = The(lastOp.val)]_vars

\* C22: whatever set, del, cleanupExpired, get and getMany the two sessions
\* have made, every row of the table and of the transaction's view has a
\* value_type among json, string, number, binary and boolean, and exactly one
\* of value_blob and value_text populated: value_blob exactly when the type
\* is binary.
C22_StoredRow ==
  \A r \in table \cup txTable :
    /\ r.value_type \in {"json", "string", "number", "binary", "boolean"}
    /\ (r.value_blob # NULL) # (r.value_text # NULL)
    /\ (r.value_blob # NULL) <=> (r.value_type = "binary")

\* C22 witness: in the transaction a set of a string has replaced a row, and
\* the row of the key holds the text and no blob
C22_Witness ==
  /\ lastOp.op = "set" /\ lastOp.sess = "tx" /\ lastOp.err = "none"
  /\ The(lastOp.val).kind = "string"
  /\ overwritten # {}
  /\ \E r \in txTable : r.key = lastOp.keys[1] /\ r.value_type = "string"
                            /\ r.value_blob = NULL /\ r.value_text = Some("1")

\* the rows a read of the root session hands to decodeValue: the row of the
\* key of a get and the rows of the keys of a getMany that are not expired,
\* the rows the statement of a list returns
decodedBy(op, keys, rows, t) ==
  IF op = "list" THEN listMatches(rows, NoListOptions, t)
  ELSE {r \in SelectKeys(rows, Range(keys)) : ~isExpired(r, t)}

\* C23: a get, getMany or list that returns a row whose value_type is none of
\* json, string, number, binary and boolean (a missing tag included) fails
\* with a decode error; the row is not decoded as a value of a default kind.
C23_DecodeError ==
  [][(/\ lastOp'.op \in {"get", "getMany", "list"} /\ lastOp'.sess = "root"
      /\ lastOp' # lastOp
      /\ \E r \in decodedBy(lastOp'.op, callKeys, table, now) :
            r.value_type \notin KnownTypes)
       => lastOp'.err = "decode"]_vars

\* the call a step has made failed with the error of the statement
failedWith(e) == lastOp'.err = e /\ lastOp'.res = <<>>

\* C24: when the engine fails a statement, the get, getMany, set, del, list
\* or cleanupExpired that issued it fails with that error, on the root session
\* and in the transaction; the one exception is the delete a root read leaves
\* behind, whose failure is dropped. In the transaction a failing delete of
\* an expired row makes get and getMany fail instead of returning absent.
C24_ErrorsPropagate ==
  [][/\ (lastOp'.op = "set"
           /\ set(callSess, callKey, The(lastOp'.val), lastOp'.expireIn, TRUE))
          => failedWith(errOf(callSess))
     /\ (lastOp'.op = "del" /\ del(callSess, callKey, TRUE))
          => failedWith(errOf(callSess))
     /\ (lastOp'.op = "cleanupExpired" /\ cleanupExpired(callSess, TRUE))
          => failedWith(errOf(callSess))
     /\ (lastOp'.op = "list" /\ list(callSess, callOptions, TRUE))
          => failedWith(errOf(callSess))
     /\ (called("get", "root") /\ CoreKV_get(callKey, TRUE))
          => failedWith("exec")
     /\ (called("getMany", "root") /\ callKeys # <<>> /\ CoreKV_getMany(callKeys, TRUE))
          => failedWith("exec")
     /\ (called("get", "tx") /\ KVTransaction_get(callKey, TRUE, FALSE))
          => failedWith(errOf("tx"))
     /\ (called("get", "tx") /\ txOpen /\ foundExpired(txTable, callKey, now)
           /\ KVTransaction_get(callKey, FALSE, TRUE))
          => failedWith("exec")
     /\ (called("getMany", "tx") /\ callKeys # <<>> /\ KVTransaction_getMany(callKeys, TRUE))
          => failedWith(errOf("tx"))
     /\ (called("getMany", "tx") /\ txOpen /\ KVTransaction_getMany(callKeys, FALSE)
           /\ Len(lastOp'.stmts) - 1 > Cardinality(txTable \ txTable'))
          => failedWith("exec")
     /\ \A k \in pending :
          lazyDelete(k, TRUE) => (lastOp' = lastOp /\ discarded' /\ table' = table)]_vars

\* C24 witness: in the open transaction a get has found its key expired, the
\* delete has failed, and the get has failed with the error; on the root
\* session the failure of a left-behind delete has been dropped
C24_Witness ==
  /\ txOpen /\ lastOp.op = "get" /\ lastOp.sess = "tx"
  /\ lastOp.err = "exec" /\ lastOp.stmts = <<"SELECT", "DELETE">>
  /\ foundExpired(txTable, lastOp.keys[1], now)
  /\ discarded

\* C25: the delete that a root get or getMany leaves behind for a key it saw
\* expired never removes a live value: when the engine runs it after a set of
\* the key has succeeded, the value that get returns for the key before the
\* delete is still returned after it.
C25_LazyDeleteSparesLive ==
  [][\A k \in pending :
       (lazyDelete(k, FALSE) /\ getSlot(table, k, now) # NULL)
         => getSlot(table', k, now) = getSlot(table, k, now)]_vars

\* C26: on the rows its session sees and at the same clock value, a get or
\* getMany of a transaction returns what the get or getMany of the root
\* session returns on those rows (the engine failing no statement of its
\* own accord); the two differ only in whether the delete of the expired rows
\* is done when the call returns.
C26_SessionsAgreeOnReads ==
  [][/\ (called("get", "tx") /\ txOpen /\ KVTransaction_get(callKey, FALSE, FALSE))
          => /\ lastOp'.err = "none"
             /\ lastOp'.res = <<getSlot(txTable, callKey, now)>>
     /\ (called("getMany", "tx") /\ txOpen /\ KVTransaction_getMany(callKeys, FALSE)
           /\ ~(tx.mode = "write" /\ lastOp'.err = "exec"))
          => /\ lastOp'.err = "none"
             /\ lastOp'.res = getManySlots(txTable, callKeys, now)]_vars

\* the row of key k with version v is in the table
present(k, v) == \E r \in table : r.key = k /\ r.version = v

\* the rows of the keys that the expiration check of a read finds expired
observedExpired(keys) == {r \in SelectKeys(table, keys) : isExpired(r, now)}

\* C27: a root get or getMany issues exactly one delete for each row it finds
\* expired and none for any other row; when the engine runs such a delete,
\* the row it was issued for is in the end absent from the table (deleted, or
\* replaced by a set in between); and a cleanupExpired removes every row
\* whose expires_at is earlier than the time of the call.
C27_EventualCleanup ==
  /\ [][/\ (called("get", "root") /\ CoreKV_get(callKey, FALSE))
            => /\ Len(lastOp'.stmts) - 1 = Cardinality(observedExpired({callKey}))
               /\ pending' = pending \cup {r.key : r \in observedExpired({callKey})}
        /\ (called("getMany", "root") /\ callKeys # <<>> /\ CoreKV_getMany(callKeys, FALSE))
            => /\ Len(lastOp'.stmts) - 1 = Cardinality(observedExpired(Range(callKeys)))
               /\ pending' = pending \cup {r.key : r \in observedExpired(Range(callKeys))}
        /\ (called("cleanupExpired", "root") /\ cleanupExpired("root", FALSE))
            => (\A r \in table :
                  (r.expires_at # NULL /\ The(r.expires_at) < now)
                    => ~hasRow(table', r.key))]_vars
  /\ \A k \in Keys : \A v \in 1 .. MaxVersion :
       (k \in pending /\ present(k, v)) ~> ~present(k, v)

\* C27 witness: a get has found its key expired and issued the delete, the
\* engine has run it, and the row is gone
C27_Witness ==
  /\ lastOp.op = "get" /\ lastOp.stmts = <<"SELECT", "DELETE">>
  /\ lastOp.keys[1] \notin pending
  /\ ~hasRow(table, lastOp.keys[1])
  /\ ~discarded

\* the step issued these statements, changed no row and left no delete behind
issuedOnly(stmts) ==
  lastOp'.stmts = stmts /\ table' = table /\ pending' = pending

\* C28: a list, whatever its options and whatever expired rows the table
\* holds, and a get or getMany whose looked-up rows are all missing or live,
\* issue exactly one SELECT and no writing statement and leave every row of
\* the table unchanged.
C28_ReadsArePure ==
  [][/\ (called("list", "root") /\ list("root", callOptions, FALSE))
          => issuedOnly(<<"SELECT">>)
     /\ (called("get", "root") /\ CoreKV_get(callKey, FALSE)
           /\ observedExpired({callKey}) = {})
          => issuedOnly(<<"SELECT">>)
     /\ (called("getMany", "root") /\ CoreKV_getMany(callKeys, FALSE)
           /\ observedExpired(Range(callKeys)) = {})
          => issuedOnly(<<"SELECT">>)]_vars

\* C28 as amended: the same reads issue no writing statement, leave every row
\* unchanged, and issue exactly one SELECT, except that a getMany of no keys
\* and a list whose filter does not compile issue no statement at all.
C28_ReadsArePureAmended ==
  [][/\ (called("list", "root") /\ list("root", callOptions, FALSE))
          => issuedOnly(IF throws(callOptions.where) THEN <<>> ELSE <<"SELECT">>)
     /\ (called("get", "root") /\ CoreKV_get(callKey, FALSE)
           /\ observedExpired({callKey}) = {})
          => issuedOnly(<<"SELECT">>)
     /\ (called("getMany", "root") /\ CoreKV_getMany(callKeys, FALSE)
           /\ observedExpired(Range(callKeys)) = {})
          => issuedOnly(IF callKeys = <<>> THEN <<>> ELSE <<"SELECT">>)]_vars

\* C28 witness: a list has run over a table that holds an expired row, with
\* one SELECT, and the expired row is still there with no delete left behind
C28_Witness ==
  /\ lastOp.op = "list" /\ lastOp.err = "none" /\ lastOp.stmts = <<"SELECT">>
  /\ pending = {}
  /\ \E r \in table : isExpired(r, now)
  /\ Len(lastOp.res) < Cardinality(table)

\* the rows of the keys other than k
others(rows, k) == {r \in rows : r.key # k}

\* C29: a set or del of key k leaves every row of another key as it was
\* (value, type, version and expiry), and the delete that a get or getMany
\* leaves behind removes rows of keys that the call found expired only.
C29_WritesTouchOwnKey ==
  [][/\ (called("set", "root")
           /\ set("root", callKey, The(lastOp'.val), lastOp'.expireIn, FALSE))
          => others(table', callKey) = others(table, callKey)
     /\ (called("del", "root") /\ del("root", callKey, FALSE))
          => others(table', callKey) = others(table, callKey)
     /\ (called("get", "root") /\ CoreKV_get(callKey, FALSE))
          => /\ table' = table
             /\ pending' \ pending \subseteq {r.key : r \in observedExpired({callKey})}
     /\ (called("getMany", "root") /\ CoreKV_getMany(callKeys, FALSE))
          => /\ table' = table
             /\ pending' \ pending \subseteq {r.key : r \in observedExpired(Range(callKeys))}
     /\ \A k \in pending :
          lazyDelete(k, FALSE)
            => /\ others(table', k) = others(table, k)
               /\ table' \subseteq table]_vars

\* C29 witness: a set of one key has succeeded while the other key holds a
\* row with an expiry, and that row is in the table
C29_Witness ==
  /\ lastOp.op = "set" /\ lastOp.err = "none"
  /\ hasRow(table, lastOp.keys[1])
  /\ \E r \in table : r.key # lastOp.keys[1] /\ r.expires_at # NULL /\ r.version = 1

\* the single condition of a filter in any of the three forms
conditionOf(where) == IF where.fn THEN where.tree.conditions[1] ELSE where.condition

\* what a list with these options returns to its caller
listOutcome(rows, options, t) ==
  IF throws(options.where) THEN [err |-> "usage", res |-> <<>>]
  ELSE IF ~statementValid(options) THEN [err |-> "exec", res |-> <<>>]
  ELSE [err |-> "none", res |-> listSlots(rows, options, t)]

\* C30: a list with the condition c as its filter returns the same entries in
\* the same order as the list with and(c) and as the list with or(c), the
\* store, the clock and the other options being the same.
C30_WhereFormsAgree ==
  [][(called("list", "root") /\ callOptions.where # NULL
      /\ list("root", callOptions, FALSE))
       => LET c == conditionOf(callWhere)
              as(w) == [callOptions EXCEPT !.where = Some(w)]
              got == [err |-> lastOp'.err, res |-> lastOp'.res]
          IN /\ got.err = "none"
             /\ got = listOutcome(table, as(WhereObject(c)), now)
             /\ got = listOutcome(table, as(WhereCallback(And(<<c>>))), now)
             /\ got = listOutcome(table, as(WhereCallback(Or(<<c>>))), now)]_vars

\* C30 witness: a reverse list of limit 1 with the filter or(a > 1) over two
\* entries that pass it has returned the entry of key b
C30_Witness ==
  /\ lastOp.op = "list" /\ lastOp.err = "none"
  /\ The(lastOp.options).where = Some(WhereCallback(Or(<<Cond("a", ">", 1)>>)))
  /\ The(lastOp.options).reverse /\ The(lastOp.options).limit = Some(1)
  /\ hasRow(table, "a") /\ decodeValue(rowOf(table, "a")) = Obj(2, 1)
  /\ resultKeys(lastOp.res) = <<"b">>

\* the filter f of a list call whose filter is not(f), as a where option
negated(where) ==
  LET f == where.tree.conditions[1]
  IN IF isLogic(f) THEN WhereCallback(f) ELSE WhereObject(f)

\* C31: a list with the filter not(f) returns exactly the live JSON entries
\* that the list with the filter f on the same store and clock does not
\* return, the entries whose JSON value lacks a field of f included.
C31_NotIsComplement ==
  [][(/\ called("list", "root") /\ callOptions.where # NULL /\ callWhere.fn
      /\ isLogic(callWhere.tree) /\ callWhere.tree.op = "NOT"
      /\ Len(callWhere.tree.conditions) = 1
      /\ list("root", callOptions, FALSE))
       => LET plain == listOutcome(table,
                         [callOptions EXCEPT !.where = Some(negated(callWhere))], now)
          IN /\ lastOp'.err = "none" /\ plain.err = "none"
             /\ resultKeySet(lastOp'.res) =
                  {r.key : r \in liveJson(table, now)} \ resultKeySet(plain.res)]_vars

\* the step of a read issued SELECT statements only, did not fail and left
\* the rows of the transaction as they were
selectsOnly ==
  /\ \A i \in DOMAIN lastOp'.stmts : lastOp'.stmts[i] = "SELECT"
  /\ lastOp'.err = "none"
  /\ txTable' = txTable

\* C32: in an open transaction of mode read, a get, getMany or list issues
\* SELECT statements only, whatever rows it looks up (expired ones included),
\* and returns its entries or absent slots without failing.
C32_ReadModeReadsOnly ==
  [][/\ (called("get", "tx") /\ txOpen /\ tx.mode = "read"
           /\ KVTransaction_get(callKey, FALSE, FALSE))
          => (selectsOnly /\ lastOp'.res = <<getSlot(txTable, callKey, now)>>)
     /\ (called("getMany", "tx") /\ txOpen /\ tx.mode = "read"
           /\ KVTransaction_getMany(callKeys, FALSE))
          => (selectsOnly /\ lastOp'.res = getManySlots(txTable, callKeys, now))
     /\ (called("list", "tx") /\ txOpen /\ tx.mode = "read"
           /\ list("tx", NoListOptions, FALSE))
          => (selectsOnly /\ lastOp'.res = listSlots(txTable, NoListOptions, now))]_vars

====
